---- MODULE Spec2Model ----
(***************************************************************************)
(* Model of the X-bookmarks -> Raindrop.io sync tool.                      *)
(*                                                                         *)
(*   sync/service.py   resolve_links, create_raindrop_requests,            *)
(*                     SyncService.sync                                    *)
(*   state.py          SyncState (load, save, is_synced, mark_synced),     *)
(*                     InMemoryState                                       *)
(*   models.py         SyncResult, SyncedBookmark, BookmarkItem            *)
(*   x/client.py       delete_bookmark (reports success as a bool)         *)
(*   raindrop/client.py create_raindrop (returns the requested link)       *)
(*                                                                         *)
(* One sync run is cut at its calls to the two collaborators: every        *)
(* create_raindrop call and the delete_bookmark call is a step whose       *)
(* outcome (return value or exception) is chosen by the environment.       *)
(***************************************************************************)
EXTENDS Integers, Sequences, FiniteSets, TLC

(* ---------------------------- bounds ----------------------------------- *)
\* number of distinct tweet ids the source can return
MaxId == 2
\* longest list one fetch returns
MaxFetch == 2
\* number of sync runs in one behaviour
MaxRuns == 2
\* latest time of a call made to the state store directly
MaxStoreTime == 1
\* latest time of a call made to the authentication flow
MaxNow == 2
\* lifetimes of credentials lie within MaxSlack seconds of the expiry buffer
MaxSlack == 1
\* number of credentials the token endpoint issues in one behaviour
MaxIssued == 2
\* number of distinct values generate_state() and a callback can carry
MaxStates == 2
\* number of pages the source holds
MaxPages == 2
\* largest number of items on one page
MaxPageItems == 2
\* largest max_results a caller of get_bookmarks passes
MaxResults == 3
\* number of requests _make_request is called for by one XClient
MaxRequests == 4
\* longest username and longest display name of an author
MaxUsername == 15
MaxName == 50
\* number of URL entities of a tweet, number of URLs in its text
MaxEntities == 2
MaxTextUrls == 1

TweetIds == 1..MaxId

(* ---------------------------- models.py -------------------------------- *)
LinkModes == {"permalink", "first_external_url", "both"}
BothBehaviors == {"one_external_plus_note", "two_raindrops"}

\* Optional values are sequences of length at most one: <<>> is None.
None == <<>>
Some(v) == <<v>>

Permalink(id) == <<"https://x.com/i/status", id>>
ExternalUrl(id, k) == <<"https://example.com", id, k>>

\* The fetched items: like the sample bookmarks of the test suite, one item
\* with two external URLs, one with none, one with one.
NumExternal(id) == CASE id % 3 = 1 -> 2 [] id % 3 = 2 -> 0 [] OTHER -> 1

BookmarkItem(id) ==
    [tweet_id |-> id,
     permalink |-> Permalink(id),
     external_urls |-> [k \in 1..NumExternal(id) |-> ExternalUrl(id, k)]]

\* A text is kept as its length. The texts of a tweet: empty, and around
\* the two lengths get_title compares with.
TitleBodyLimit == 100
TitleLimit == 150

TextLengths ==
    {0} \cup ((TitleBodyLimit - 1)..(TitleBodyLimit + 1))
        \cup ((TitleLimit - 1)..(TitleLimit + 1))

\* the items get_title is applied to: text, author_username, author_name
TitleItems ==
    [text : TextLengths,
     author_username : {None, Some(0), Some(1), Some(MaxUsername)},
     author_name : {None, Some(0), Some(1), Some(MaxName)}]

\* `if s:` for an optional text
Truthy(s) == s # None /\ s[1] > 0

\* BookmarkItem.get_title, lines 69-84: the length of the title
get_title(item) ==
    IF Truthy(item.author_username)
    THEN LET at == 1 + item.author_username[1]
             prefix == IF Truthy(item.author_name)
                       THEN item.author_name[1] + 2 + at + 1
                       ELSE at
         IN  IF item.text > TitleBodyLimit
             THEN (IF prefix + 2 + TitleBodyLimit + 3 > TitleLimit
                   THEN TitleLimit
                   ELSE prefix + 2 + TitleBodyLimit + 3)
             ELSE prefix + 2 + item.text
    ELSE IF item.text > TitleLimit THEN TitleLimit ELSE item.text

\* SyncResult(): all counters zero, no errors
SyncResult ==
    [total_bookmarks |-> 0, already_synced |-> 0, newly_synced |-> 0,
     failed |-> 0, deleted_from_x |-> 0, errors |-> <<>>]

\* an error list that grows at its front
add_error_front(r, error) == [r EXCEPT !.errors = <<error>> \o @]

add_error(r, error) == [r EXCEPT !.errors = Append(@, error)]

\* ProgressCallback, called with (current, total, message): the events
\* the callback of a run has received
progress_callback(events, current, total) == Append(events, <<current, total>>)

SyncedBookmark(id, links, at, deleted) ==
    [tweet_id |-> id, raindrop_links |-> links, synced_at |-> at,
     deleted_from_x |-> deleted]

(* ---------------------------- config.py -------------------------------- *)
SyncSettings ==
    [collection_id : {None, Some(1)},
     remove_from_x : BOOLEAN,
     link_mode : LinkModes,
     both_behavior : BothBehaviors,
     dry_run : BOOLEAN]

(* ---------------------------- sync/service.py -------------------------- *)
\* a plan that takes the first external URL in every mode
resolve_links_always_external(bookmark, link_mode, both_behavior) ==
    IF bookmark.external_urls # <<>>
    THEN << <<bookmark.external_urls[1], Some(<<"From: ", bookmark.permalink>>)>> >>
    ELSE << <<bookmark.permalink, None>> >>

\* a plan that takes the last external URL where the first is due
resolve_links_last_external(bookmark, link_mode, both_behavior) ==
    IF link_mode = "permalink" \/ bookmark.external_urls = <<>>
    THEN << <<bookmark.permalink, None>> >>
    ELSE << <<bookmark.external_urls[Len(bookmark.external_urls)],
              Some(<<"From: ", bookmark.permalink>>)>> >>

\* a plan that puts the permalink before the external URL
resolve_links_permalink_first(bookmark, link_mode, both_behavior) ==
    IF link_mode = "permalink" \/ bookmark.external_urls = <<>>
    THEN << <<bookmark.permalink, None>> >>
    ELSE << <<bookmark.permalink, None>>,
            <<bookmark.external_urls[1], Some(<<"From: ", bookmark.permalink>>)>> >>

\* resolve_links: the list of (link, note) pairs to create for a bookmark
resolve_links(bookmark, link_mode, both_behavior) ==
    IF link_mode = "permalink"
    THEN << <<bookmark.permalink, None>> >>
    ELSE IF link_mode = "first_external_url"
    THEN IF bookmark.external_urls # <<>>
         THEN << <<bookmark.external_urls[1], Some(<<"From: ", bookmark.permalink>>)>> >>
         ELSE << <<bookmark.permalink, None>> >>
    ELSE IF link_mode = "both"
    THEN IF bookmark.external_urls # <<>>
         THEN IF both_behavior = "one_external_plus_note"
              THEN << <<bookmark.external_urls[1], Some(<<"X Post: ", bookmark.permalink>>)>> >>
              ELSE << <<bookmark.external_urls[1], Some(<<"From: ", bookmark.permalink>>)>>,
                      <<bookmark.permalink, None>> >>
         ELSE << <<bookmark.permalink, None>> >>
    ELSE <<>>

\* create_raindrop_requests raises ValueError when no collection is set
RequestsRaiseValueError(st) == st.collection_id = None

\* create_raindrop_requests: one request per resolved link (title, excerpt
\* and tags are carried along unchanged and do not influence the run)
create_raindrop_requests(bookmark, st) ==
    LET links == resolve_links(bookmark, st.link_mode, st.both_behavior)
    IN  [n \in 1..Len(links) |->
            [link |-> links[n][1],
             note |-> links[n][2],
             collection_id |-> st.collection_id[1],
             source_tweet_id |-> bookmark.tweet_id]]

(* ---------------------------- state.py --------------------------------- *)
EmptyLedger == [id \in {} |-> 0]

\* datetime.isoformat / datetime.fromisoformat
isoformat(t) == <<"iso", t>>

\* a fromisoformat that loses the time
fromisoformat_epoch(s) == 0

fromisoformat(s) == s[2]

\* the JSON object save() writes for one record
RecordToJson(rec) ==
    [tweet_id |-> rec.tweet_id,
     raindrop_links |-> rec.raindrop_links,
     synced_at |-> isoformat(rec.synced_at),
     deleted_from_x |-> rec.deleted_from_x]

\* the SyncedBookmark load() builds from one JSON object
RecordFromJson(obj) ==
    SyncedBookmark(obj.tweet_id, obj.raindrop_links,
                   fromisoformat(obj.synced_at), obj.deleted_from_x)

AbsentFile == [kind |-> "absent", synced |-> EmptyLedger]

\* is_synced that only counts records whose deletion flag is set
is_synced_deleted(ledger, id) ==
    id \in DOMAIN ledger /\ ledger[id].deleted_from_x

is_synced(ledger, id) == id \in DOMAIN ledger

\* File contents load() gives up on with an exception it catches (lines
\* 64-70): json.load raises JSONDecodeError (garbage, a zero-length file, a
\* cut-off document), a record lacks "tweet_id" or "synced_at" (KeyError),
\* "synced_at" is a string fromisoformat rejects (ValueError).
CaughtKinds == {"invalid_json", "empty", "partial", "missing_field", "bad_timestamp"}

\* File contents on which load() raises an exception it does not catch:
\* the top level is not an object (data.get: AttributeError), "synced" is
\* not an object (.items(): AttributeError), a record is not an object
\* (record["tweet_id"]: TypeError), "synced_at" is not a string
\* (fromisoformat: TypeError).
UncaughtKinds == {"top_not_object", "synced_not_object", "record_not_object",
                  "timestamp_not_string"}

\* does load() let an exception escape?
load_raises(kind, f) == kind = "file" /\ f.kind \in UncaughtKinds

\* SyncState.load / InMemoryState.load: the ledger after load(). For a file
\* that is not "valid", f.synced holds the records that precede the bad one.
load(kind, f, ledger) ==
    IF kind = "memory" THEN ledger
    ELSE IF f.kind = "absent" THEN ledger
    ELSE IF f.kind \in CaughtKinds THEN EmptyLedger
    ELSE [id \in DOMAIN ledger \cup DOMAIN f.synced |->
            IF id \in DOMAIN f.synced THEN RecordFromJson(f.synced[id])
            ELSE ledger[id]]

\* save() that never finds the store dirty
save_writes_never(kind, isDirty) == FALSE

\* save() without the test of the dirty flag
save_writes_always(kind, isDirty) == kind = "file"

\* SyncState.save / InMemoryState.save: does save() write the file?
save_writes(kind, isDirty) == kind = "file" /\ isDirty

\* the file content save() writes
save_data(ledger) ==
    [kind |-> "valid",
     synced |-> [id \in DOMAIN ledger |-> RecordToJson(ledger[id])]]

\* mark_synced that only overwrites records that exist already
mark_synced_existing(ledger, id, links, deleted, now) ==
    [i \in DOMAIN ledger |->
        IF i = id THEN SyncedBookmark(id, links, now, deleted) ELSE ledger[i]]

\* SyncState.mark_synced: the ledger with the record inserted or overwritten
mark_synced(ledger, id, links, deleted, now) ==
    [i \in DOMAIN ledger \cup {id} |->
        IF i = id THEN SyncedBookmark(id, links, now, deleted) ELSE ledger[i]]

\* mark_deleted that builds the record anew, without its links
mark_deleted_unlinks(ledger, id) ==
    IF id \in DOMAIN ledger
    THEN [ledger EXCEPT ![id] = [tweet_id |-> @.tweet_id, raindrop_links |-> <<>>,
                                 synced_at |-> @.synced_at, deleted_from_x |-> TRUE]]
    ELSE ledger

\* mark_deleted that drops the record
mark_deleted_drops(ledger, id) ==
    [k \in DOMAIN ledger \ {id} |-> ledger[k]]

\* SyncState.mark_deleted: the ledger afterwards
mark_deleted(ledger, id) ==
    IF id \in DOMAIN ledger
    THEN [ledger EXCEPT ![id] = SyncedBookmark(@.tweet_id, @.raindrop_links,
                                               @.synced_at, TRUE)]
    ELSE ledger

\* SyncState.clear: the ledger afterwards
clear(ledger) == EmptyLedger

(* ---------------------------- x/auth_pkce.py --------------------------- *)
\* OAuth2Token.is_expired: timedelta(seconds=60)
ExpiryBuffer == 60
\* exchange_code_for_token / refresh_access_token: token_data.get("expires_in", 7200)
DefaultExpiresIn == 7200

\* OAuth2Token (token_type and scope are carried along unchanged)
OAuth2Token(access, refresh, expires_at) ==
    [access_token |-> access, refresh_token |-> refresh, expires_at |-> expires_at]

\* an is_expired without the buffer's last second
is_expired_strict(t, t_now) == t_now > t.expires_at - ExpiryBuffer

\* an is_expired that holds of every token
is_expired_always(t, t_now) == TRUE

\* OAuth2Token.is_expired
is_expired(t, t_now) == t_now >= t.expires_at - ExpiryBuffer

\* OAuth2Token.to_dict
to_dict(t) ==
    [access_token |-> t.access_token, refresh_token |-> t.refresh_token,
     expires_at |-> isoformat(t.expires_at)]

\* OAuth2Token.from_dict
from_dict(data) ==
    OAuth2Token(data.access_token, data.refresh_token, fromisoformat(data.expires_at))

AbsentTokenFile == [kind |-> "absent", data |-> <<>>]
CorruptTokenFile == [kind |-> "corrupt", data |-> <<>>]

\* a save_token that writes nothing
save_token_skipped(t, f) == f

\* save_token: the file afterwards
save_token(t, f) == [kind |-> "valid", data |-> to_dict(t)]

\* load_token: None for a missing file and for one that does not parse
load_token(f) == IF f.kind = "valid" THEN Some(from_dict(f.data)) ELSE None

\* the lifetimes of the credentials a token file holds at the start
Lifetimes == {0} \cup ((ExpiryBuffer - MaxSlack)..(ExpiryBuffer + MaxSlack))

\* the expires_in of an answer: none, or one that makes the credential
\* expired at once, or one second later
ExpiresIn == {None, Some(ExpiryBuffer), Some(ExpiryBuffer + 1)}

\* the answers of the token endpoint to one request
TokenResponses ==
    {[kind |-> "ok", expires_in |-> e, refresh_token |-> r] :
        e \in ExpiresIn, r \in BOOLEAN}
    \cup {[kind |-> k, expires_in |-> None, refresh_token |-> FALSE] :
            k \in {"http_status_error", "transport_error", "malformed_response"}}

\* lines 242-243, 289-290: expires_at of a credential built from a response
expires_at_of(resp, t_now) ==
    t_now + (IF resp.expires_in = None THEN DefaultExpiresIn ELSE resp.expires_in[1])

\* refresh_access_token, lines 289-298, for a response that parsed: the n-th
\* credential; the refresh token of the response, or else the old one
refresh_access_token(refresh_token, resp, t_now, n) ==
    OAuth2Token(n, IF resp.refresh_token THEN Some(n) ELSE refresh_token,
                expires_at_of(resp, t_now))

\* exchange_code_for_token, lines 242-251, for a response that parsed
exchange_code_for_token(resp, t_now, n) ==
    OAuth2Token(n, IF resp.refresh_token THEN Some(n) ELSE None,
                expires_at_of(resp, t_now))

\* what a get_token / login call leaves behind: the cache, the file, the
\* value returned, the exception raised ("" for none), the calls made
CallResult(tok, f, ret, raised, refreshes, exchanges, writes) ==
    [token |-> tok, file |-> f, ret |-> ret, raised |-> raised,
     refresh_calls |-> refreshes, exchange_calls |-> exchanges, writes |-> writes]

\* PKCEAuthFlow.get_token, lines 418-441, when the token endpoint answers
\* a refresh request with resp
get_token(cache, f, t_now, resp, n) ==
    LET tok == IF cache = None THEN load_token(f) ELSE cache
    IN  IF tok = None
        THEN CallResult(tok, f, None, "", 0, 0, 0)
        ELSE IF ~is_expired(tok[1], t_now)
        THEN CallResult(tok, f, tok, "", 0, 0, 0)
        ELSE IF tok[1].refresh_token = None
        THEN CallResult(tok, f, None, "", 0, 0, 0)
        ELSE IF resp.kind = "ok"
        THEN LET new == refresh_access_token(tok[1].refresh_token, resp, t_now, n)
             IN  CallResult(Some(new), save_token(new, f), Some(new), "", 1, 0, 1)
        ELSE IF resp.kind = "http_status_error"
        THEN CallResult(tok, f, None, "", 1, 0, 0)
        ELSE CallResult(tok, f, None, resp.kind, 1, 0, 0)

\* a logout that clears the cache and leaves the file
logout_keeps_file(cache, f) == CallResult(None, f, None, "", 0, 0, 0)

\* PKCEAuthFlow.logout, lines 535-540: clear the cache, unlink the file if
\* the path exists
logout(cache, f) ==
    CallResult(None, IF f.kind # "absent" THEN AbsentTokenFile ELSE f, None, "",
               0, 0, 0)

\* CallbackHandler class attributes after the reset of login(), lines 460-462
ResetHandler == [auth_code |-> None, state |-> None, error |-> None]

\* a login that leaves the class attributes as the last callback set them
login_reset_skipped(h) == h

\* login(), lines 459-462: the class attributes are reset
login_reset(h) == ResetHandler

\* the queries a callback request can carry (parse_qs drops blank values)
StateValues == 1..MaxStates
Queries ==
    [error : {None, Some("access_denied")},
     code : {None, Some("code")},
     state : {None} \cup {Some(v) : v \in StateValues}]

\* CallbackHandler.do_GET, lines 344-355: the class attributes afterwards
do_GET(h, query) ==
    IF query.error # None
    THEN [h EXCEPT !.error = query.error]
    ELSE IF query.code # None
    THEN [h EXCEPT !.auth_code = query.code, !.state = query.state]
    ELSE h

\* a check of the callback that does not compare the state value
login_check_no_state(h, state) ==
    IF h.error # None THEN "RuntimeError: Authorization failed"
    ELSE IF h.auth_code = None THEN "RuntimeError: No authorization code received"
    ELSE ""

\* login(), lines 499-508: the error raised for the callback ("" for none)
login_check(h, state) ==
    IF h.error # None THEN "RuntimeError: Authorization failed"
    ELSE IF h.auth_code = None THEN "RuntimeError: No authorization code received"
    ELSE IF h.state # Some(state) THEN "RuntimeError: State mismatch"
    ELSE ""

\* a login that caches the new credential and does not write it
login_finish_unsaved(cache, f, h, state, t_now, resp, n) ==
    IF login_check(h, state) # ""
    THEN CallResult(cache, f, None, login_check(h, state), 0, 0, 0)
    ELSE IF resp.kind = "ok"
    THEN LET new == exchange_code_for_token(resp, t_now, n)
         IN  CallResult(Some(new), f, Some(new), "", 0, 1, 0)
    ELSE CallResult(cache, f, None, resp.kind, 0, 1, 0)

\* login(), lines 497-525, once the server thread has ended
login_finish(cache, f, h, state, t_now, resp, n) ==
    IF login_check(h, state) # ""
    THEN CallResult(cache, f, None, login_check(h, state), 0, 0, 0)
    ELSE IF resp.kind = "ok"
    THEN LET new == exchange_code_for_token(resp, t_now, n)
         IN  CallResult(Some(new), save_token(new, f), Some(new), "", 0, 1, 1)
    ELSE CallResult(cache, f, None, resp.kind, 0, 1, 0)

(* ---------------------------- x/client.py ------------------------------ *)
DEFAULT_RATE_LIMIT_WAIT_SECONDS == 60
MAX_RATE_LIMIT_WAIT_SECONDS == 900
MAX_RETRIES == 5
\* line 146: the seconds added to the time until the reset
ResetBuffer == 5

Min(a, b) == IF a <= b THEN a ELSE b
Max(a, b) == IF a >= b THEN a ELSE b

\* A header of a response: absent (or empty), a text int() rejects, or
\* the text of an integer. The value of x-rate-limit-reset is kept as the
\* seconds from int(time.time()), read when the response is handled, to
\* the timestamp of the header.
NoHeader == [kind |-> "absent", value |-> 0]
Garbled == [kind |-> "garbled", value |-> 0]
IntHeader(v) == [kind |-> "int", value |-> v]

ResetHeaders ==
    {NoHeader, Garbled}
    \cup {IntHeader(v) : v \in {0 - 1,
                                MAX_RATE_LIMIT_WAIT_SECONDS - ResetBuffer,
                                MAX_RATE_LIMIT_WAIT_SECONDS - ResetBuffer + 1}}

RetryAfterHeaders ==
    {NoHeader, Garbled}
    \cup {IntHeader(v) : v \in {0 - 1, 30, MAX_RATE_LIMIT_WAIT_SECONDS + 1}}

\* the headers of a 429 response
RateLimitHeaders == [reset : ResetHeaders, retry_after : RetryAfterHeaders]

\* a wait time that looks at Retry-After first
wait_time_retry_after_first(headers) ==
    IF headers.retry_after.kind = "int"
    THEN Min(headers.retry_after.value, MAX_RATE_LIMIT_WAIT_SECONDS)
    ELSE IF headers.reset.kind = "int"
    THEN Min(Max(0, headers.reset.value) + ResetBuffer, MAX_RATE_LIMIT_WAIT_SECONDS)
    ELSE DEFAULT_RATE_LIMIT_WAIT_SECONDS

\* XClient._get_rate_limit_wait_time, lines 130-159
get_rate_limit_wait_time(headers) ==
    IF headers.reset.kind = "int"
    THEN Min(Max(0, headers.reset.value) + ResetBuffer, MAX_RATE_LIMIT_WAIT_SECONDS)
    ELSE IF headers.retry_after.kind = "int"
    THEN Min(headers.retry_after.value, MAX_RATE_LIMIT_WAIT_SECONDS)
    ELSE DEFAULT_RATE_LIMIT_WAIT_SECONDS

\* a retry loop that gives up after one retry less
retry_exhausted_early(retries) == retries >= MAX_RETRIES

\* _make_request, line 199: the retries are used up
retry_exhausted(retries) == retries > MAX_RETRIES

\* get_bookmarks, line 339: `max_results and total_fetched >= max_results`
\* (None and 0 are both false)
max_reached(max, total) == max # None /\ max[1] # 0 /\ total >= max[1]

\* the sizes of a page: empty (its "data" missing), one item, full
PageSizes == {0, 1, MaxPageItems}

\* The bookmarks of the source: the number of items of each page. Page k
\* carries a next_token exactly when a page k + 1 exists.
PageLists == UNION {[1..n -> PageSizes] : n \in 1..MaxPages}

\* the values a caller passes as max_results
MaxResultsValues == {None} \cup {Some(n) : n \in 0..MaxResults}

\* the items of the pages 1..k of a source, in the order received; an item
\* is named by its page and its place on the page
RECURSIVE ItemsUpTo(_, _)
ItemsUpTo(ps, k) ==
    IF k = 0 THEN <<>>
    ELSE ItemsUpTo(ps, k - 1) \o [i \in 1..ps[k] |-> <<k, i>>]

\* A URL is its host and the rest; all are https URLs.
Url(host, rest) == [host |-> host, rest |-> rest]

\* the hosts of the platform and of its shortener
OwnHosts == {"x.com", "twitter.com", "t.co"}

Urls ==
    {Url("x.com", "/jack/status/20"), Url("twitter.com", "/jack/status/20"),
     Url("t.co", "/abc"), Url("example.org", "/post"),
     Url("example.org", "/?ref=twitter.com"),
     Url("www.reddit.com", "/r/python"), Url("www.dropbox.com", "/s/file")}

\* `domain in url`: the text of the URL has the domain somewhere in it
\* ("www.reddit.com" has "t.co", "www.dropbox.com" has "x.com")
Contains(url, domain) ==
    \/ url.host = domain
    \/ url.host = "www.reddit.com" /\ domain = "t.co"
    \/ url.host = "www.dropbox.com" /\ domain = "x.com"
    \/ url.rest = "/?ref=twitter.com" /\ domain = "twitter.com"

\* url.startswith("https://t.co")
StartsWithShortener(url) == url.host = "t.co"

\* URL_PATTERN, lines 37-38: an https URL matches unless "t.co" follows the
\* slashes
MatchesUrlPattern(url) == url.host # "t.co"

\* the entries of entities["urls"]
UrlEntities ==
    {[expanded_url |-> Some(u), unwrapped_url |-> None] : u \in Urls}
    \cup {[expanded_url |-> None, unwrapped_url |-> Some(u)] :
            u \in {Url("example.org", "/post"), Url("www.dropbox.com", "/s/file")}}
    \cup {[expanded_url |-> None, unwrapped_url |-> None]}

\* the tweets _extract_external_urls is applied to: the URL entities and
\* the URLs in the text
Tweets ==
    [entities : UNION {[1..n -> UrlEntities] : n \in 0..MaxEntities},
     text : UNION {[1..n -> Urls] : n \in 0..MaxTextUrls}]

\* line 425: expanded_url or unwrapped_url
ExpandedOf(entity) ==
    IF entity.expanded_url # None THEN entity.expanded_url ELSE entity.unwrapped_url

\* the URLs the entities give, in order
EntityUrls(tweet) ==
    LET given == SelectSeq(tweet.entities, LAMBDA e : ExpandedOf(e) # None)
    IN  [i \in 1..Len(given) |-> ExpandedOf(given[i])[1]]

\* XClient._extract_external_urls, lines 409-444
extract_external_urls(tweet) ==
    LET kept == SelectSeq(EntityUrls(tweet),
                          LAMBDA u : /\ ~StartsWithShortener(u)
                                     /\ ~\E d \in {"twitter.com", "x.com", "t.co"} :
                                            Contains(u, d))
    IN  IF kept # <<>> THEN kept
        ELSE SelectSeq(SelectSeq(tweet.text, MatchesUrlPattern),
                       LAMBDA u : ~\E d \in {"twitter.com", "x.com"} :
                                      Contains(u, d))

(* ---------------------------- state ------------------------------------ *)
VARIABLES
    store_kind,     \* "file": SyncState(path); "memory": InMemoryState
    synced,         \* SyncState._synced
    dirty,          \* SyncState._dirty
    file,           \* the persisted state file
    settings,       \* SyncService.settings of the current run
    bookmarks,      \* the list fetched by the current run
    idx,            \* number of bookmarks the loop has finished
    pc,             \* "idle", "loop", "done", "aborted", "exited"
    result,         \* the run's SyncResult
    created_links,  \* created_links of the bookmark being created
    clock,          \* datetime.now(), advanced once per run
    calls,          \* calls made to the collaborators in the current run
    created,        \* the (tweet id, link) pairs created so far, over all runs
    save_calls,     \* state.save() invocations of the current run
    repeat,         \* the run fetched the list of the run before it, which
                    \* was a completed real run in which no bookmark failed
    progress        \* the events the progress callback of the current run
                    \* has received, as (current, total)

\* the variables of a sync run and of the state store, but the position
syncVars_but_pc == <<store_kind, synced, dirty, file, settings, bookmarks, idx,
                     result, created_links, clock, calls, created, save_calls,
                     repeat, progress>>

\* the variables of a sync run and of the state store
syncVars == <<store_kind, synced, dirty, file, settings, bookmarks, idx, pc, result,
              created_links, clock, calls, created, save_calls, repeat, progress>>

VARIABLES
    last_op,        \* the last SyncState operation made through the API
    marks_only,     \* the store object was built by mark_synced and
                    \* mark_deleted calls only
    mutated         \* a call changed the ledger of the store object since
                    \* its last save() returned

\* the variables of the state store driven call by call
storeVars == <<last_op, marks_only, mutated>>

VARIABLES
    token,          \* PKCEAuthFlow._token
    token_file,     \* the file at token_path
    now,            \* datetime.now() / time.time(), in seconds
    issued,         \* number of credentials the token endpoint has issued
    last,           \* the last get_token / login call and how it ended
    handler,        \* CallbackHandler.auth_code, .state, .error
    callback,       \* the query of the request the listener served
    login_state,    \* the state value generate_state() returned to the
                    \* login() that is running
    socket_open,    \* the listening socket of the callback server is open
    thread_alive    \* a server thread is in handle_request()

\* the variables of the authentication flow
authVars == <<token, token_file, now, issued, last, handler, callback,
              login_state, socket_open, thread_alive>>

VARIABLES
    pages,          \* the pages of bookmarks the source holds
    user_id,        \* XClient._user_id is set
    request_count,  \* XClient._request_count
    xreq,           \* the request _make_request is called for: "user",
                    \* "user_for_delete", "page", "delete"
    retries,        \* retries of _make_request
    wait_headers,   \* the headers of the 429 response _make_request handled
                    \* last, until get_bookmarks goes on
    wait_seconds,   \* wait_seconds of _make_request: the sleep it made last
    max_results,    \* max_results of the get_bookmarks call
    pagination_token,   \* pagination_token of get_bookmarks
    page_pos,       \* place on the page of the item yielded last
    total_fetched,  \* total_fetched of get_bookmarks
    yielded         \* the items get_bookmarks has yielded

\* the variables of the X client
xVars == <<pages, user_id, request_count, xreq, retries, wait_headers,
           wait_seconds, max_results, pagination_token, page_pos, total_fetched,
           yielded>>

VARIABLES
    fn,             \* the function that is applied
    arg,            \* its argument
    out             \* the value it returned, once it has

\* the variables of a function call
pureVars == <<fn, arg, out>>

VARIABLES
    logins          \* the login() invocations that run at the same time in
                    \* one process: position, locals, the request served

\* the variables of concurrent logins
raceVars == <<logins>>

\* the variables of the clients
clientVars == <<xVars, pureVars, raceVars>>

\* the variables a sync run leaves alone
apiVars == <<storeVars, authVars, clientVars>>

vars == <<syncVars, apiVars>>

\* what is kept of a call: the operation, the value returned, the
\* exception raised, the calls made
Outcome(op, res) ==
    [op |-> op, ret |-> res.ret, raised |-> res.raised,
     refresh_calls |-> res.refresh_calls, exchange_calls |-> res.exchange_calls,
     writes |-> res.writes]

\* no get_token / login call was made yet
NoCall == Outcome("none", CallResult(None, AbsentTokenFile, None, "", 0, 0, 0))

\* the authentication flow as the constructor leaves it, lines 405-410,
\* without a token file
\* the login() invocations of SpecLogins
Logins == 1..2

\* a login() that was not called
IdleLogin ==
    [pc |-> "idle", state |-> None, callback |-> None, alive |-> FALSE,
     checked |-> ResetHandler, raised |-> "", exchanged |-> None]

NoAuth ==
    /\ logins = [i \in Logins |-> IdleLogin]
    /\ token = None
    /\ token_file = AbsentTokenFile
    /\ now = 0
    /\ issued = 0
    /\ last = NoCall
    /\ handler = ResetHandler
    /\ callback = None
    /\ login_state = None
    /\ socket_open = FALSE
    /\ thread_alive = FALSE

\* an XClient as the constructor leaves it, lines 94-108, and no
\* get_bookmarks call
NoLocals ==
    /\ xreq = "none"
    /\ retries = 0
    /\ wait_headers = None
    /\ wait_seconds = None
    /\ max_results = None
    /\ pagination_token = None
    /\ page_pos = 0
    /\ total_fetched = 0
    /\ yielded = <<>>

\* no function is applied
NoFunction ==
    /\ fn = "none"
    /\ arg = None
    /\ out = None

NoClient ==
    /\ pages = <<0>>
    /\ user_id = FALSE
    /\ request_count = 0
    /\ NoLocals
    /\ NoFunction

FetchLists ==
    UNION {[1..n -> {BookmarkItem(id) : id \in TweetIds}] : n \in 0..MaxFetch}

Init ==
    /\ store_kind \in {"file", "memory"}
    /\ synced = EmptyLedger
    /\ dirty = FALSE
    /\ file = AbsentFile
    /\ settings \in {st \in SyncSettings : ~st.dry_run}
    /\ bookmarks = <<>>
    /\ idx = 0
    /\ pc = "idle"
    /\ result = SyncResult
    /\ created_links = <<>>
    /\ clock = 0
    /\ calls = <<>>
    /\ created = {}
    /\ save_calls = 0
    /\ repeat = FALSE
    /\ progress = <<>>
    /\ last_op = "init"
    /\ marks_only = TRUE
    /\ mutated = FALSE
    /\ NoAuth
    /\ NoClient

\* no run is active
Resting == pc \in {"idle", "done", "aborted", "exited"}

\* the last run was a completed real run in which no bookmark failed
AllSynced ==
    pc \in {"done", "exited"} /\ ~settings.dry_run /\ result.failed = 0

\* the lists the next run can fetch: any list when no result is held; the
\* list of the last run when its result is still held (any other list is
\* fetched after Return)
NextFetch == IF pc \in {"done", "exited"} THEN {bookmarks} ELSE FetchLists

\* sync(), lines 166-179: load the state, fetch the whole list, count it
StartSyncWith(dry) ==
    \E bm \in NextFetch :
        /\ Resting
        /\ clock < MaxRuns
        /\ clock' = clock + 1
        /\ synced' = load(store_kind, file, synced)
        /\ settings' = [settings EXCEPT !.dry_run = dry]
        /\ bookmarks' = bm
        /\ result' = [SyncResult EXCEPT !.total_bookmarks = Len(bm)]
        /\ idx' = 0
        /\ pc' = "loop"
        /\ created_links' = <<>>
        /\ calls' = <<>>
        /\ save_calls' = 0
        /\ repeat' = AllSynced
        /\ progress' = progress_callback(<<>>, 0, Len(bm))
        /\ UNCHANGED apiVars
        /\ UNCHANGED <<store_kind, dirty, file, created>>

StartSync == \E dry \in BOOLEAN : StartSyncWith(dry)

\* a run that is not a dry run
StartRealSync == StartSyncWith(FALSE)

\* a fetch error after which the state is saved
SyncFetchRaisesWith_Saves(dry) ==
    /\ Resting
    /\ clock < MaxRuns
    /\ clock' = clock + 1
    /\ synced' = load(store_kind, file, synced)
    /\ settings' = [settings EXCEPT !.dry_run = dry]
    /\ bookmarks' = <<>>
    /\ result' = SyncResult
    /\ idx' = 0
    /\ pc' = "aborted"
    /\ created_links' = <<>>
    /\ calls' = <<>>
    /\ save_calls' = 1
    /\ file' = IF store_kind = "file" THEN save_data(synced') ELSE file
    /\ repeat' = FALSE
    /\ progress' = <<>>
    /\ UNCHANGED apiVars
    /\ UNCHANGED <<store_kind, dirty, created>>

\* sync(), lines 166-173 when get_bookmarks raises, at the first page or
\* at a later one: list() drops the items yielded before, the run ends there
SyncFetchRaisesWith(dry) ==
    /\ Resting
    /\ clock < MaxRuns
    /\ clock' = clock + 1
    /\ synced' = load(store_kind, file, synced)
    /\ settings' = [settings EXCEPT !.dry_run = dry]
    /\ bookmarks' = <<>>
    /\ result' = SyncResult
    /\ idx' = 0
    /\ pc' = "aborted"
    /\ created_links' = <<>>
    /\ calls' = <<>>
    /\ save_calls' = 0
    /\ repeat' = FALSE
    /\ progress' = <<>>
    /\ UNCHANGED apiVars
    /\ UNCHANGED <<store_kind, dirty, file, created>>

SyncFetchRaises == \E dry \in BOOLEAN : SyncFetchRaisesWith(dry)

RealSyncFetchRaises == SyncFetchRaisesWith(FALSE)

\* line 182: the bookmark of the current loop iteration
Current == bookmarks[idx + 1]

InLoop == pc = "loop" /\ idx < Len(bookmarks)

\* a skip that is not counted
SkipSynced_Uncounted ==
    /\ InLoop
    /\ is_synced(synced, Current.tweet_id)
    /\ idx' = idx + 1
    /\ progress' = progress_callback(progress, idx + 1, result.total_bookmarks)
    /\ UNCHANGED apiVars
    /\ UNCHANGED <<store_kind, synced, dirty, file, settings, bookmarks, pc, result,
                   created_links, clock, calls, created, save_calls, repeat>>

\* lines 188-198: the bookmark is in the ledger
SkipSynced ==
    /\ InLoop
    /\ is_synced(synced, Current.tweet_id)
    /\ result' = [result EXCEPT !.already_synced = @ + 1]
    /\ idx' = idx + 1
    /\ progress' = progress_callback(progress, idx + 1, result.total_bookmarks)
    /\ UNCHANGED apiVars
    /\ UNCHANGED <<store_kind, synced, dirty, file, settings, bookmarks, pc,
                   created_links, clock, calls, created, save_calls, repeat>>

\* lines 200-207: create_raindrop_requests raises ValueError
RequestFails ==
    /\ InLoop
    /\ ~is_synced(synced, Current.tweet_id)
    /\ RequestsRaiseValueError(settings)
    /\ result' = add_error([result EXCEPT !.failed = @ + 1],
                           <<Current.tweet_id, "collection_id must be set">>)
    /\ idx' = idx + 1
    /\ progress' = progress
    /\ UNCHANGED apiVars
    /\ UNCHANGED <<store_kind, synced, dirty, file, settings, bookmarks, pc,
                   created_links, clock, calls, created, save_calls, repeat>>

\* a dry run that records the bookmark
DryRun_Marks ==
    /\ InLoop
    /\ ~is_synced(synced, Current.tweet_id)
    /\ ~RequestsRaiseValueError(settings)
    /\ settings.dry_run
    /\ synced' = mark_synced(synced, Current.tweet_id, <<>>, FALSE, clock)
    /\ dirty' = TRUE
    /\ result' = [result EXCEPT !.newly_synced = @ + 1]
    /\ idx' = idx + 1
    /\ progress' = progress_callback(progress, idx + 1, result.total_bookmarks)
    /\ UNCHANGED apiVars
    /\ UNCHANGED <<store_kind, file, settings, bookmarks, pc, created_links,
                   clock, calls, created, save_calls, repeat>>

\* lines 209-222: dry run
DryRun ==
    /\ InLoop
    /\ ~is_synced(synced, Current.tweet_id)
    /\ ~RequestsRaiseValueError(settings)
    /\ settings.dry_run
    /\ result' = [result EXCEPT !.newly_synced = @ + 1]
    /\ idx' = idx + 1
    /\ progress' = progress_callback(progress, idx + 1, result.total_bookmarks)
    /\ UNCHANGED apiVars
    /\ UNCHANGED <<store_kind, synced, dirty, file, settings, bookmarks, pc,
                   created_links, clock, calls, created, save_calls, repeat>>

\* lines 188-226: the bookmark is new and its requests are built; the loop
\* over the requests (line 228) is running or has ended
InCreate ==
    /\ InLoop
    /\ ~is_synced(synced, Current.tweet_id)
    /\ ~RequestsRaiseValueError(settings)
    /\ ~settings.dry_run

\* line 202: the requests of the current bookmark
Requests == create_raindrop_requests(Current, settings)

\* line 228: a request is left
Creating == InCreate /\ Len(created_links) < Len(Requests)

NextRequest == Requests[Len(created_links) + 1]

\* the record of one call to a collaborator
Call(op, link, outcome) ==
    [op |-> op, idx |-> idx, tweet_id |-> Current.tweet_id, link |-> link,
     outcome |-> outcome]

\* lines 228-232: create_raindrop returns; created.link is the requested link
CreateSucceeds ==
    /\ Creating
    /\ created_links' = Append(created_links, NextRequest.link)
    /\ calls' = Append(calls, Call("create", NextRequest.link, "ok"))
    /\ created' = created \cup {<<Current.tweet_id, NextRequest.link>>}
    /\ progress' = progress
    /\ UNCHANGED apiVars
    /\ UNCHANGED <<store_kind, synced, dirty, file, settings, bookmarks, idx,
                   pc, result, clock, save_calls, repeat>>

\* a failed creation without the `continue`: the bookmark is recorded too
CreateFails_FallsThrough ==
    /\ Creating
    /\ calls' = Append(calls, Call("create", NextRequest.link, "raised"))
    /\ result' = [add_error(result, <<Current.tweet_id, "Failed to create", NextRequest.link>>)
                    EXCEPT !.failed = @ + 1, !.newly_synced = @ + 1]
    /\ synced' = mark_synced(synced, Current.tweet_id, created_links, FALSE, clock)
    /\ dirty' = TRUE
    /\ idx' = idx + 1
    /\ created_links' = <<>>
    /\ progress' = progress
    /\ UNCHANGED apiVars
    /\ UNCHANGED <<store_kind, file, settings, bookmarks, pc, clock, created,
                   save_calls, repeat>>

\* lines 233-241: create_raindrop raises; the bookmark has failed
CreateFails ==
    /\ Creating
    /\ calls' = Append(calls, Call("create", NextRequest.link, "raised"))
    /\ result' = [add_error(result, <<Current.tweet_id, "Failed to create", NextRequest.link>>)
                    EXCEPT !.failed = @ + 1]
    /\ idx' = idx + 1
    /\ created_links' = <<>>
    /\ progress' = progress
    /\ UNCHANGED apiVars
    /\ UNCHANGED <<store_kind, synced, dirty, file, settings, bookmarks, pc,
                   clock, created, save_calls, repeat>>

\* the creation loop left before its last request
Created_Early == InCreate

\* lines 239-243: the creation loop ended without a failure
Created == InCreate /\ Len(created_links) = Len(Requests)

\* recording a bookmark with a save() after the record
RecordSynced_Saves ==
    /\ Created
    /\ ~settings.remove_from_x
    /\ synced' = mark_synced(synced, Current.tweet_id, created_links, FALSE, clock)
    /\ save_calls' = save_calls + 1
    /\ IF save_writes(store_kind, TRUE)
       THEN file' = save_data(synced') /\ dirty' = FALSE
       ELSE file' = file /\ dirty' = TRUE
    /\ result' = [result EXCEPT !.newly_synced = @ + 1]
    /\ idx' = idx + 1
    /\ created_links' = <<>>
    /\ progress' = progress_callback(progress, idx + 1, result.total_bookmarks)
    /\ UNCHANGED apiVars
    /\ UNCHANGED <<store_kind, settings, bookmarks, pc, clock, calls,
                   created, repeat>>

\* lines 243-272 with remove_from_x off: record the bookmark
RecordSynced ==
    /\ Created
    /\ ~settings.remove_from_x
    /\ synced' = mark_synced(synced, Current.tweet_id, created_links, FALSE, clock)
    /\ dirty' = TRUE
    /\ result' = [result EXCEPT !.newly_synced = @ + 1]
    /\ idx' = idx + 1
    /\ created_links' = <<>>
    /\ progress' = progress_callback(progress, idx + 1, result.total_bookmarks)
    /\ UNCHANGED apiVars
    /\ UNCHANGED <<store_kind, file, settings, bookmarks, pc, clock, calls,
                   created, save_calls, repeat>>

\* lines 247-252: the flag recorded when delete_bookmark returns `success`
deleted_after_return(success) == TRUE

\* lines 243-272 with remove_from_x on and delete_bookmark returning
DeleteReturns ==
    \E success \in BOOLEAN :
        /\ Created
        /\ settings.remove_from_x
        /\ calls' = Append(calls, Call("delete", None,
                                       IF success THEN "true" ELSE "false"))
        /\ LET deleted_from_x == deleted_after_return(success)
           IN  /\ synced' = mark_synced(synced, Current.tweet_id, created_links,
                                        deleted_from_x, clock)
               /\ result' = [result EXCEPT
                               !.deleted_from_x = IF deleted_from_x THEN @ + 1 ELSE @,
                               !.newly_synced = @ + 1]
        /\ dirty' = TRUE
        /\ idx' = idx + 1
        /\ created_links' = <<>>
        /\ progress' = progress_callback(progress, idx + 1, result.total_bookmarks)
        /\ UNCHANGED apiVars
        /\ UNCHANGED <<store_kind, file, settings, bookmarks, pc, clock, created,
                       save_calls, repeat>>

\* a deletion error that fails the bookmark
DeleteRaises_Fails ==
    /\ Created
    /\ settings.remove_from_x
    /\ calls' = Append(calls, Call("delete", None, "raised"))
    /\ result' = [add_error(result, <<Current.tweet_id, "Failed to delete from X">>)
                    EXCEPT !.failed = @ + 1]
    /\ idx' = idx + 1
    /\ created_links' = <<>>
    /\ progress' = progress
    /\ UNCHANGED apiVars
    /\ UNCHANGED <<store_kind, synced, dirty, file, settings, bookmarks, pc,
                   clock, created, save_calls, repeat>>

\* lines 243-272 with remove_from_x on and delete_bookmark raising
DeleteRaises ==
    /\ Created
    /\ settings.remove_from_x
    /\ calls' = Append(calls, Call("delete", None, "raised"))
    /\ synced' = mark_synced(synced, Current.tweet_id, created_links, FALSE, clock)
    /\ dirty' = TRUE
    /\ result' = [add_error(result, <<Current.tweet_id, "Failed to delete from X">>)
                    EXCEPT !.newly_synced = @ + 1]
    /\ idx' = idx + 1
    /\ created_links' = <<>>
    /\ progress' = progress_callback(progress, idx + 1, result.total_bookmarks)
    /\ UNCHANGED apiVars
    /\ UNCHANGED <<store_kind, file, settings, bookmarks, pc, clock, created,
                   save_calls, repeat>>

\* lines 274-286: the loop is over; save the state and return the result
FinishSync ==
    /\ pc = "loop"
    /\ idx = Len(bookmarks)
    /\ save_calls' = save_calls + 1
    /\ IF save_writes(store_kind, dirty)
       THEN file' = save_data(synced) /\ dirty' = FALSE
       ELSE UNCHANGED <<file, dirty>>
    /\ pc' = "done"
    /\ progress' = progress
    /\ UNCHANGED apiVars
    /\ UNCHANGED <<store_kind, synced, settings, bookmarks, idx, result,
                   created_links, clock, calls, created, repeat>>

\* line 286: the result is returned and the caller is through with it; the
\* locals of the run are gone
Return ==
    /\ pc \in {"done", "exited", "aborted"}
    /\ pc' = "idle"
    /\ settings' = [settings EXCEPT !.dry_run = FALSE]
    /\ bookmarks' = <<>>
    /\ idx' = 0
    /\ result' = SyncResult
    /\ calls' = <<>>
    /\ save_calls' = 0
    /\ repeat' = FALSE
    /\ progress' = <<>>
    /\ UNCHANGED apiVars
    /\ UNCHANGED <<store_kind, synced, dirty, file, created_links, clock, created>>

\* cli.py line 250: the next invocation builds a new SyncState on the same path
NewProcess ==
    /\ Resting
    /\ store_kind = "file"
    /\ synced # EmptyLedger \/ dirty
    /\ synced' = EmptyLedger
    /\ dirty' = FALSE
    /\ pc' = IF pc = "done" THEN "exited" ELSE pc
    /\ progress' = progress
    /\ UNCHANGED apiVars
    /\ UNCHANGED <<store_kind, file, settings, bookmarks, idx, result,
                   created_links, clock, calls, created, save_calls, repeat>>

Next ==
    \/ StartSync
    \/ SyncFetchRaises
    \/ SkipSynced
    \/ RequestFails
    \/ DryRun
    \/ CreateSucceeds
    \/ CreateFails
    \/ RecordSynced
    \/ DeleteReturns
    \/ DeleteRaises
    \/ FinishSync
    \/ Return
    \/ NewProcess

Spec == Init /\ [][Next]_vars

\* the runs that are all real runs: dry_run is off from the start to the end
NextReal ==
    \/ StartRealSync
    \/ RealSyncFetchRaises
    \/ SkipSynced
    \/ RequestFails
    \/ CreateSucceeds
    \/ CreateFails
    \/ RecordSynced
    \/ DeleteReturns
    \/ DeleteRaises
    \/ FinishSync
    \/ Return
    \/ NewProcess

SpecReal == Init /\ [][NextReal]_vars

TypeOK ==
    /\ store_kind \in {"file", "memory"}
    /\ dirty \in BOOLEAN
    /\ pc \in {"idle", "loop", "done", "aborted", "exited"}
    /\ idx \in 0..Len(bookmarks)
    /\ clock \in 0..MaxRuns
    /\ DOMAIN synced \subseteq TweetIds

(* ---------------------------- the state store, call by call ----------- *)
\* what a call to the store leaves alone: the locals of a sync run
runVars == <<store_kind, settings, bookmarks, idx, result, created_links,
             calls, created, save_calls, repeat, progress>>

\* ledgers a state file can hold when the store is built: records of time 0
InitLedgers ==
    UNION {{[id \in ids |-> SyncedBookmark(id, <<Permalink(id)>>, 0, flag[id])] :
              flag \in [ids -> BOOLEAN]} : ids \in SUBSET TweetIds}

\* the contents the state file can have when a store is built on its path
StoreFiles ==
    {AbsentFile}
    \cup {save_data(l) : l \in InitLedgers}
    \cup {[kind |-> k, synced |-> EmptyLedger] :
            k \in {"invalid_json", "top_not_object", "synced_not_object"}}
    \cup {[kind |-> k, synced |-> save_data(l).synced] :
            k \in {"record_not_object", "timestamp_not_string", "missing_field",
                   "bad_timestamp"},
            l \in {EmptyLedger, mark_synced(EmptyLedger, 1, <<Permalink(1)>>, FALSE, 0)}}

\* the locals of a sync run when none was started
NoRun ==
    /\ settings = [collection_id |-> Some(1), remove_from_x |-> FALSE,
                   link_mode |-> "permalink",
                   both_behavior |-> "one_external_plus_note", dry_run |-> FALSE]
    /\ bookmarks = <<>>
    /\ idx = 0
    /\ result = SyncResult
    /\ created_links = <<>>
    /\ calls = <<>>
    /\ created = {}
    /\ save_calls = 0
    /\ repeat = FALSE
    /\ progress = <<>>

InitStore ==
    /\ store_kind \in {"file", "memory"}
    /\ file \in IF store_kind = "file" THEN StoreFiles ELSE {AbsentFile}
    /\ synced = EmptyLedger
    /\ dirty = FALSE
    /\ pc = "idle"
    /\ clock = 0
    /\ NoRun
    /\ last_op = "init"
    /\ marks_only = TRUE
    /\ mutated = FALSE
    /\ NoAuth
    /\ NoClient

\* state.py 41-70: load()
StoreLoad ==
    /\ pc = "idle"
    /\ synced' = load(store_kind, file, synced)
    /\ last_op' = IF load_raises(store_kind, file) THEN "load_raised" ELSE "load"
    /\ marks_only' = FALSE
    /\ mutated' = mutated
    /\ UNCHANGED <<runVars, authVars, clientVars, dirty, file, pc, clock>>

\* state.py 121-146: mark_synced(tweet_id, raindrop_links, deleted_from_x)
StoreMarkSynced ==
    \E id \in TweetIds, deleted \in BOOLEAN :
        /\ pc = "idle"
        /\ synced' = mark_synced(synced, id, <<Permalink(id)>>, deleted, clock)
        /\ dirty' = TRUE
        /\ last_op' = "mark_synced"
        /\ mutated' = TRUE
        /\ UNCHANGED <<runVars, authVars, clientVars, file, pc, clock, marks_only>>

\* state.py 148-162: mark_deleted(tweet_id)
StoreMarkDeletedOf(id) ==
    /\ pc = "idle"
    /\ synced' = mark_deleted(synced, id)
    /\ dirty' = (dirty \/ id \in DOMAIN synced)
    /\ last_op' = "mark_deleted"
    /\ mutated' = (mutated \/ id \in DOMAIN synced)
    /\ UNCHANGED <<runVars, authVars, clientVars, file, pc, clock, marks_only>>

StoreMarkDeleted == \E id \in TweetIds : StoreMarkDeletedOf(id)

\* state.py 180-183: clear()
StoreClear ==
    /\ pc = "idle"
    /\ synced' = clear(synced)
    /\ dirty' = TRUE
    /\ last_op' = "clear"
    /\ marks_only' = FALSE
    /\ mutated' = TRUE
    /\ UNCHANGED <<runVars, authVars, clientVars, file, pc, clock>>

\* state.py 74-75, 197-199: save() of a store that is not dirty, or in memory
StoreSaveSkipped ==
    /\ pc = "idle"
    /\ ~save_writes(store_kind, dirty)
    /\ last_op' = "save"
    /\ mutated' = FALSE
    /\ UNCHANGED <<runVars, authVars, clientVars, synced, dirty, file, pc, clock, marks_only>>

\* state.py 77-93: open(path, "w") truncates the file
StoreSaveOpen ==
    /\ pc = "idle"
    /\ save_writes(store_kind, dirty)
    /\ file' = [kind |-> "empty", synced |-> EmptyLedger]
    /\ pc' = "saving"
    /\ last_op' = "save_open"
    /\ UNCHANGED <<runVars, authVars, clientVars, synced, dirty, clock, marks_only, mutated>>

\* state.py 94: json.dump has written a part of the document
StoreSaveDumpPart ==
    /\ pc = "saving"
    /\ file.kind = "empty"
    /\ file' = [kind |-> "partial", synced |-> EmptyLedger]
    /\ UNCHANGED <<runVars, authVars, clientVars, synced, dirty, pc, clock, last_op, marks_only, mutated>>

\* state.py 94-97: the document is written, the file closed, the flag reset
StoreSaveDump ==
    /\ pc = "saving"
    /\ file' = save_data(synced)
    /\ dirty' = FALSE
    /\ pc' = "idle"
    /\ last_op' = "save"
    /\ mutated' = FALSE
    /\ UNCHANGED <<runVars, authVars, clientVars, synced, clock, marks_only>>

\* the process stops during save(); the next one builds a new SyncState
StoreCrash ==
    /\ pc = "saving"
    /\ synced' = EmptyLedger
    /\ dirty' = FALSE
    /\ pc' = "idle"
    /\ last_op' = "crash"
    /\ marks_only' = TRUE
    /\ mutated' = FALSE
    /\ UNCHANGED <<runVars, authVars, clientVars, file, clock>>

\* state.py 31-39: a new SyncState / InMemoryState object (on the same path)
StoreNew ==
    /\ pc = "idle"
    /\ synced' = EmptyLedger
    /\ dirty' = FALSE
    /\ last_op' = "new"
    /\ marks_only' = TRUE
    /\ mutated' = FALSE
    /\ UNCHANGED <<runVars, authVars, clientVars, file, pc, clock>>

\* datetime.now() moves on
StoreTick ==
    /\ pc = "idle"
    /\ clock < MaxStoreTime
    /\ clock' = clock + 1
    /\ UNCHANGED <<runVars, authVars, clientVars, synced, dirty, file, pc, last_op, marks_only, mutated>>

NextStore ==
    \/ StoreLoad
    \/ StoreMarkSynced
    \/ StoreMarkDeleted
    \/ StoreClear
    \/ StoreSaveSkipped
    \/ StoreSaveOpen
    \/ StoreSaveDumpPart
    \/ StoreSaveDump
    \/ StoreCrash
    \/ StoreNew
    \/ StoreTick

SpecStore == InitStore /\ [][NextStore]_vars

(* ---------------------------- the authentication flow ------------------ *)
\* the answer that stands for none when a call makes no request
NoAnswer == [kind |-> "http_status_error", expires_in |-> None, refresh_token |-> FALSE]

\* the answers the token endpoint can give to a call that ends as res does
\* when answered with NoAnswer: any, when the call makes a request
AnswersTo(res) ==
    IF res.refresh_calls + res.exchange_calls > 0 THEN TokenResponses ELSE {NoAnswer}

\* the number of credentials the token endpoint issues during a call
Issues(res, resp) ==
    IF res.refresh_calls + res.exchange_calls > 0 /\ resp.kind = "ok" THEN 1 ELSE 0

\* what a call to the authentication flow leaves alone
notAuthVars == <<syncVars, storeVars, clientVars>>

\* credentials a token file can hold when the flow is built
InitTokens ==
    {OAuth2Token(0, r, e) : r \in {None, Some(0)}, e \in Lifetimes}

InitAuth ==
    /\ logins = [i \in Logins |-> IdleLogin]
    /\ store_kind = "file"
    /\ file = AbsentFile
    /\ synced = EmptyLedger
    /\ dirty = FALSE
    /\ pc = "idle"
    /\ clock = 0
    /\ NoRun
    /\ last_op = "init"
    /\ marks_only = TRUE
    /\ mutated = FALSE
    /\ token = None
    /\ token_file \in {AbsentTokenFile, CorruptTokenFile}
                      \cup {save_token(t, AbsentTokenFile) : t \in InitTokens}
    /\ now = 0
    /\ issued = 0
    /\ last = NoCall
    /\ handler = ResetHandler
    /\ callback = None
    /\ login_state = None
    /\ socket_open = FALSE
    /\ thread_alive = FALSE
    /\ NoClient

\* PKCEAuthFlow.get_token, lines 412-441
GetToken ==
    \E resp \in AnswersTo(get_token(token, token_file, now, NoAnswer, 0)) :
        LET res == get_token(token, token_file, now, resp, issued + 1)
        IN  /\ pc = "idle"
            /\ res.refresh_calls = 0 \/ issued < MaxIssued
            /\ token' = res.token
            /\ token_file' = res.file
            /\ issued' = issued + Issues(res, resp)
            /\ last' = Outcome("get_token", res)
            /\ UNCHANGED <<notAuthVars, now, handler, callback, login_state,
                           socket_open, thread_alive>>

\* login(), lines 459-475: reset the handler, generate the state, bind the
\* server and start the thread that serves one request
LoginStart ==
    \E state \in StateValues :
        /\ pc = "idle"
        /\ handler' = login_reset(handler)
        /\ callback' = None
        /\ login_state' = Some(state)
        /\ socket_open' = TRUE
        /\ thread_alive' = TRUE
        /\ pc' = "login_wait"
        /\ UNCHANGED <<store_kind, synced, dirty, file, settings, bookmarks, idx,
                       result, created_links, clock, calls, created, save_calls,
                       repeat, progress, storeVars, clientVars, token, token_file, now, issued, last>>

\* the server thread: handle_request serves one request and ends; the
\* socket stays open, login() holds the server
ServeCallback ==
    \E query \in Queries :
        /\ thread_alive
        /\ handler' = do_GET(handler, query)
        /\ callback' = Some(query)
        /\ thread_alive' = FALSE
        /\ UNCHANGED <<notAuthVars, token, token_file, now, issued, last,
                       login_state, socket_open>>

\* login(), lines 491-493, when the timeout has passed and the thread is
\* alive: server.shutdown() waits for a serve_forever loop to end; the
\* thread runs handle_request, no such loop runs, and the call never
\* returns (line 494 is not reached)
LoginTimeout ==
    /\ pc = "login_wait"
    /\ thread_alive
    /\ pc' = "login_blocked"
    /\ UNCHANGED <<store_kind, synced, dirty, file, settings, bookmarks, idx,
                   result, created_links, clock, calls, created, save_calls,
                   repeat, progress, storeVars, clientVars, authVars>>

\* login(), lines 491-525, when the thread has ended: close the server,
\* check the callback, exchange the code, save and cache the credential
LoginFinish ==
    /\ pc = "login_wait"
    /\ ~thread_alive
    /\ \E resp \in AnswersTo(login_finish(token, token_file, handler,
                                          login_state[1], now, NoAnswer, 0)) :
        LET res == login_finish(token, token_file, handler, login_state[1], now,
                                resp, issued + 1)
        IN  /\ res.exchange_calls = 0 \/ issued < MaxIssued
            /\ socket_open' = FALSE
            /\ token' = res.token
            /\ token_file' = res.file
            /\ issued' = issued + Issues(res, resp)
            /\ last' = Outcome("login", res)
            /\ pc' = "idle"
            /\ login_state' = None
            /\ UNCHANGED <<store_kind, synced, dirty, file, settings, bookmarks,
                           idx, result, created_links, clock, calls, created,
                           save_calls, repeat, progress, storeVars, clientVars, now, handler, callback,
                           thread_alive>>

\* logout(), lines 535-540
Logout ==
    /\ pc = "idle"
    /\ token' = logout(token, token_file).token
    /\ token_file' = logout(token, token_file).file
    /\ last' = Outcome("logout", logout(token, token_file))
    /\ UNCHANGED <<notAuthVars, now, issued, handler, callback, login_state,
                   socket_open, thread_alive>>

\* the process ends (its daemon thread and socket with it) and the next one
\* builds a new PKCEAuthFlow on the same token path, lines 405-410
AuthNew ==
    /\ pc \in {"idle", "login_blocked"}
    /\ token # None \/ pc # "idle"
    /\ token' = None
    /\ socket_open' = FALSE
    /\ thread_alive' = FALSE
    /\ pc' = "idle"
    /\ login_state' = None
    /\ UNCHANGED <<store_kind, synced, dirty, file, settings, bookmarks, idx,
                   result, created_links, clock, calls, created, save_calls,
                   repeat, progress, storeVars, clientVars, token_file, now, issued, last, handler,
                   callback>>

\* a second passes
AuthTick ==
    /\ now < MaxNow
    /\ now' = now + 1
    /\ UNCHANGED <<notAuthVars, token, token_file, issued, last, handler,
                   callback, login_state, socket_open, thread_alive>>

NextAuth ==
    \/ GetToken
    \/ LoginStart
    \/ ServeCallback
    \/ LoginTimeout
    \/ LoginFinish
    \/ Logout
    \/ AuthNew
    \/ AuthTick

SpecAuth == InitAuth /\ [][NextAuth]_vars

(* ---------------- logins that run at the same time --------------------- *)
\* what a login() in a thread of its own leaves alone; the class attributes
\* of CallbackHandler, the cache and the token file are shared
notLoginVars == <<syncVars, storeVars, xVars, pureVars, now, last, callback,
                  login_state, socket_open, thread_alive>>

\* the queries the listener of login i can be served: the code is the one
\* the authorization server made for that login
QueriesOf(i) ==
    [error : {None, Some("access_denied")},
     code : {None, Some(i)},
     state : {None} \cup {Some(v) : v \in StateValues}]

InitLogins ==
    /\ store_kind = "file"
    /\ file = AbsentFile
    /\ synced = EmptyLedger
    /\ dirty = FALSE
    /\ pc = "idle"
    /\ clock = 0
    /\ NoRun
    /\ last_op = "init"
    /\ marks_only = TRUE
    /\ mutated = FALSE
    /\ NoAuth
    /\ NoClient

\* login(), lines 459-475, in invocation i: reset the class attributes,
\* generate the state, bind the server of its port, start its thread
ConcLoginStart(i) ==
    \E state \in StateValues :
        /\ logins[i].pc = "idle"
        /\ handler' = login_reset(handler)
        /\ logins' = [logins EXCEPT ![i] =
                        [IdleLogin EXCEPT !.pc = "wait", !.state = Some(state),
                                          !.alive = TRUE]]
        /\ UNCHANGED <<notLoginVars, token, token_file, issued>>

\* the server thread of invocation i serves one request: do_GET, lines
\* 344-355, stores into the class attributes
ConcServeCallback(i) ==
    \E query \in QueriesOf(i) :
        /\ logins[i].alive
        /\ handler' = do_GET(handler, query)
        /\ logins' = [logins EXCEPT ![i].callback = Some(query), ![i].alive = FALSE]
        /\ UNCHANGED <<notLoginVars, token, token_file, issued>>

\* login(), lines 491-493, in invocation i: the timeout passed while its
\* thread is alive; server.shutdown() never returns
ConcLoginTimeout(i) ==
    /\ logins[i].pc = "wait"
    /\ logins[i].alive
    /\ logins' = [logins EXCEPT ![i].pc = "blocked"]
    /\ UNCHANGED <<notLoginVars, handler, token, token_file, issued>>

\* login(), lines 497-508, in invocation i, once its thread has ended:
\* close the server and check the class attributes, raising or going on
ConcLoginCheck(i) ==
    /\ logins[i].pc = "wait"
    /\ ~logins[i].alive
    /\ logins' = [logins EXCEPT
                    ![i].checked = handler,
                    ![i].raised = login_check(handler, logins[i].state[1]),
                    ![i].pc = IF login_check(handler, logins[i].state[1]) = ""
                              THEN "checked" ELSE "done"]
    /\ UNCHANGED <<notLoginVars, handler, token, token_file, issued>>

\* login(), lines 510-525, in invocation i: exchange the code the class
\* attribute holds now, save and cache the credential
ConcLoginExchange(i) ==
    \E resp \in TokenResponses :
        /\ logins[i].pc = "checked"
        /\ issued < MaxIssued
        /\ logins' = [logins EXCEPT
                        ![i].exchanged = handler.auth_code,
                        ![i].raised = IF resp.kind = "ok" THEN "" ELSE resp.kind,
                        ![i].pc = "done"]
        /\ IF resp.kind = "ok"
           THEN LET new == exchange_code_for_token(resp, now, issued + 1)
                IN  /\ token_file' = save_token(new, token_file)
                    /\ token' = Some(new)
                    /\ issued' = issued + 1
           ELSE UNCHANGED <<token, token_file, issued>>
        /\ UNCHANGED <<notLoginVars, handler>>

\* invocation i has returned or raised and its thread of the program can
\* call login() again
ConcLoginReturn(i) ==
    /\ logins[i].pc = "done"
    /\ logins' = [logins EXCEPT ![i] = IdleLogin]
    /\ UNCHANGED <<notLoginVars, handler, token, token_file, issued>>

NextLogins ==
    \E i \in Logins :
        \/ ConcLoginStart(i)
        \/ ConcServeCallback(i)
        \/ ConcLoginTimeout(i)
        \/ ConcLoginCheck(i)
        \/ ConcLoginExchange(i)
        \/ ConcLoginReturn(i)

SpecLogins == InitLogins /\ [][NextLogins]_vars

(* ---------------- the X client, request by request --------------------- *)
\* everything but the X client
notClientVars == <<syncVars, storeVars, authVars>>

InitX ==
    /\ store_kind = "file"
    /\ file = AbsentFile
    /\ synced = EmptyLedger
    /\ dirty = FALSE
    /\ clock = 0
    /\ NoRun
    /\ last_op = "init"
    /\ marks_only = TRUE
    /\ mutated = FALSE
    /\ NoAuth
    /\ pages \in PageLists
    /\ user_id = FALSE
    /\ request_count = 0
    /\ NoLocals
    /\ NoFunction
    /\ pc = "x_idle"

\* _make_request, lines 182-183: count the request, no retries yet
BeginRequest(kind) ==
    /\ xreq' = kind
    /\ request_count' = request_count + 1
    /\ retries' = 0
    /\ wait_headers' = None
    /\ wait_seconds' = None
    /\ pc' = "x_request"

\* the page get_bookmarks asks for, lines 302-303, 312
Cursor == IF pagination_token = None THEN 1 ELSE pagination_token[1]

\* get_bookmarks(max_results) is called and its first item asked for,
\* lines 287-299: the user id is looked up (lines 250-253) or is cached
XGetBookmarks ==
    \E max \in MaxResultsValues :
        /\ pc = "x_idle"
        /\ request_count < MaxRequests
        /\ max_results' = max
        /\ BeginRequest(IF user_id THEN "page" ELSE "user")
        /\ UNCHANGED <<syncVars_but_pc, storeVars, authVars, pureVars, raceVars, pages, user_id,
                       pagination_token, page_pos, total_fetched, yielded>>

\* _make_request, lines 194-232: the response is 429; give up, or sleep
\* for the wait time and send the request again; time.sleep raises
\* ValueError for a negative time
XTooManyRequests ==
    \E headers \in RateLimitHeaders :
        /\ pc = "x_request"
        /\ retries' = retries + 1
        /\ IF retry_exhausted(retries + 1)
           THEN /\ pc' = "x_raised"
                /\ wait_headers' = None
                /\ wait_seconds' = None
           ELSE /\ pc' = IF get_rate_limit_wait_time(headers) < 0
                         THEN "x_raised" ELSE "x_request"
                /\ wait_headers' = Some(headers)
                /\ wait_seconds' = Some(get_rate_limit_wait_time(headers))
        /\ UNCHANGED <<syncVars_but_pc, storeVars, authVars, pureVars, raceVars, pages, user_id,
                       request_count, xreq, max_results, pagination_token,
                       page_pos, total_fetched, yielded>>

\* _make_request, line 235: another error status is raised at once
XHttpError ==
    /\ pc = "x_request"
    /\ pc' = "x_raised"
    /\ wait_headers' = None
    /\ wait_seconds' = None
    /\ UNCHANGED <<syncVars_but_pc, storeVars, authVars, pureVars, raceVars, pages, user_id,
                   request_count, xreq, retries, max_results, pagination_token,
                   page_pos, total_fetched, yielded>>

\* get_authenticated_user_id, lines 253-257, then the first page is asked
\* for, line 312, or the deletion, line 470
XUserOk ==
    /\ pc = "x_request"
    /\ xreq \in {"user", "user_for_delete"}
    /\ user_id' = TRUE
    /\ BeginRequest(IF xreq = "user" THEN "page" ELSE "delete")
    /\ UNCHANGED <<syncVars_but_pc, storeVars, authVars, pureVars, raceVars, pages, max_results,
                   pagination_token, page_pos, total_fetched, yielded>>

\* get_bookmarks, lines 313-336: a page arrives; end when it is empty,
\* yield its first item otherwise
XPageOk ==
    /\ pc = "x_request"
    /\ xreq = "page"
    /\ IF pages[Cursor] = 0
       THEN /\ pc' = "x_ended"
            /\ UNCHANGED <<page_pos, yielded>>
       ELSE /\ pc' = "x_suspended"
            /\ page_pos' = 1
            /\ yielded' = Append(yielded, <<Cursor, 1>>)
    /\ UNCHANGED <<syncVars_but_pc, storeVars, authVars, pureVars, raceVars, pages, user_id,
                   request_count, xreq, retries, wait_headers, wait_seconds,
                   max_results, pagination_token, total_fetched>>

\* get_bookmarks is resumed after a yield, lines 337-351: count the item,
\* return at the maximum, yield the next item of the page, ask for the
\* next page, or end
XNext ==
    /\ pc = "x_suspended"
    /\ total_fetched' = total_fetched + 1
    /\ IF max_reached(max_results, total_fetched + 1)
       THEN /\ pc' = "x_ended"
            /\ wait_headers' = None
            /\ wait_seconds' = None
            /\ UNCHANGED <<request_count, xreq, retries, pagination_token,
                           page_pos, yielded>>
       ELSE IF page_pos < pages[Cursor]
       THEN /\ page_pos' = page_pos + 1
            /\ yielded' = Append(yielded, <<Cursor, page_pos + 1>>)
            /\ wait_headers' = None
            /\ wait_seconds' = None
            /\ UNCHANGED <<pc, request_count, xreq, retries, pagination_token>>
       ELSE IF Cursor < Len(pages)
       THEN /\ pagination_token' = Some(Cursor + 1)
            /\ BeginRequest("page")
            /\ UNCHANGED <<page_pos, yielded>>
       ELSE /\ pc' = "x_ended"
            /\ wait_headers' = None
            /\ wait_seconds' = None
            /\ UNCHANGED <<request_count, xreq, retries, pagination_token,
                           page_pos, yielded>>
    /\ UNCHANGED <<syncVars_but_pc, storeVars, authVars, pureVars, raceVars, pages, user_id,
                   max_results>>

\* delete_bookmark(tweet_id) is called, lines 463-470: the user id is
\* looked up or is cached, then the DELETE request is made
XDeleteBookmark ==
    /\ pc = "x_idle"
    /\ request_count < MaxRequests
    /\ BeginRequest(IF user_id THEN "delete" ELSE "user_for_delete")
    /\ UNCHANGED <<syncVars_but_pc, storeVars, authVars, pureVars, raceVars, pages, user_id,
                   max_results, pagination_token, page_pos, total_fetched, yielded>>

\* delete_bookmark, lines 471-483: the response arrives and is returned
XDeleteOk ==
    /\ pc = "x_request"
    /\ xreq = "delete"
    /\ pc' = "x_returned"
    /\ UNCHANGED <<syncVars_but_pc, storeVars, authVars, pureVars, raceVars, pages, user_id,
                   request_count, xreq, retries, wait_headers, wait_seconds,
                   max_results, pagination_token, page_pos, total_fetched, yielded>>

\* the caller is done with the call (ended, raised, returned, or dropped
\* after an item)
XDone ==
    /\ pc \in {"x_suspended", "x_ended", "x_raised", "x_returned"}
    /\ pc' = "x_idle"
    /\ xreq' = "none"
    /\ retries' = 0
    /\ wait_headers' = None
    /\ wait_seconds' = None
    /\ max_results' = None
    /\ pagination_token' = None
    /\ page_pos' = 0
    /\ total_fetched' = 0
    /\ yielded' = <<>>
    /\ UNCHANGED <<syncVars_but_pc, storeVars, authVars, pureVars, raceVars, pages, user_id,
                   request_count>>

\* a new XClient, lines 94-108
XNewClient ==
    /\ pc = "x_idle"
    /\ user_id \/ request_count > 0
    /\ user_id' = FALSE
    /\ request_count' = 0
    /\ UNCHANGED <<syncVars, storeVars, authVars, pureVars, raceVars, pages, xreq, retries,
                   wait_headers, wait_seconds, max_results, pagination_token,
                   page_pos, total_fetched, yielded>>

NextX ==
    \/ XGetBookmarks
    \/ XTooManyRequests
    \/ XHttpError
    \/ XUserOk
    \/ XPageOk
    \/ XNext
    \/ XDeleteBookmark
    \/ XDeleteOk
    \/ XDone
    \/ XNewClient

SpecX == InitX /\ [][NextX]_vars

(* ---------------- the functions of an item, call by call --------------- *)
InitFunctions ==
    /\ store_kind = "file"
    /\ file = AbsentFile
    /\ synced = EmptyLedger
    /\ dirty = FALSE
    /\ clock = 0
    /\ NoRun
    /\ last_op = "init"
    /\ marks_only = TRUE
    /\ mutated = FALSE
    /\ NoAuth
    /\ pages = <<0>>
    /\ user_id = FALSE
    /\ request_count = 0
    /\ NoLocals
    /\ pc = "called"
    /\ \/ fn = "get_title" /\ arg \in TitleItems
       \/ fn = "_extract_external_urls" /\ arg \in Tweets
    /\ out = None

\* BookmarkItem.get_title returns
ReturnTitle ==
    /\ pc = "called"
    /\ fn = "get_title"
    /\ out' = Some(get_title(arg))
    /\ pc' = "returned"
    /\ UNCHANGED <<syncVars_but_pc, storeVars, authVars, xVars, raceVars, fn, arg>>

\* XClient._extract_external_urls returns
ReturnExternalUrls ==
    /\ pc = "called"
    /\ fn = "_extract_external_urls"
    /\ out' = Some(extract_external_urls(arg))
    /\ pc' = "returned"
    /\ UNCHANGED <<syncVars_but_pc, storeVars, authVars, xVars, raceVars, fn, arg>>

NextFunctions ==
    \/ ReturnTitle
    \/ ReturnExternalUrls

SpecFunctions == InitFunctions /\ [][NextFunctions]_vars

(* ---------------------------- properties ------------------------------- *)
RunActive == pc = "loop"

\* positions of the log that are create_raindrop / delete_bookmark calls
CreateCalls == {j \in DOMAIN calls : calls[j].op = "create"}
DeleteCalls == {j \in DOMAIN calls : calls[j].op = "delete"}

FetchedIds == {bookmarks[n].tweet_id : n \in DOMAIN bookmarks}

\* Records written by the current run carry the current clock value, so the
\* ids the ledger held when the run started (after load) are the older ones.
InLedgerAtStart(id) == id \in DOMAIN synced /\ synced[id].synced_at < clock

\* C1: over runs that are all real (non-dry) runs on one state store, no
\* pair (tweet id, link) is created successfully more than once: a
\* create_raindrop call that succeeds is for a pair not created before.
C1_ExactlyOnce ==
    [][ (Len(calls') = Len(calls) + 1
           /\ calls'[Len(calls')].op = "create"
           /\ calls'[Len(calls')].outcome = "ok")
          => <<calls'[Len(calls')].tweet_id, calls'[Len(calls')].link>> \notin created
      ]_vars

\* C2: when the previous run was a completed real run in which no bookmark
\* failed, a run that fetches the same list makes no create_raindrop call,
\* and it ends with newly_synced = 0 and already_synced = the previous total.
C2_IdempotentSync ==
    (repeat /\ pc \in {"loop", "done"}) =>
        /\ CreateCalls = {}
        /\ result.newly_synced = 0
        /\ pc = "done" => result.already_synced = Len(bookmarks)

C2_Witness ==
    /\ pc = "done"
    /\ repeat
    /\ Len(bookmarks) = 2
    /\ bookmarks[1] # bookmarks[2]
    /\ result.already_synced = 2

\* the precondition of C3: a completed run, none of the fetched ids in the
\* ledger when it started, a collection configured, every creation succeeded
C3_Case ==
    /\ pc = "done"
    /\ \A id \in FetchedIds : ~InLedgerAtStart(id)
    /\ settings.collection_id # None
    /\ \A j \in CreateCalls : calls[j].outcome = "ok"

C3_Outcome ==
    /\ result.newly_synced = result.total_bookmarks
    /\ result.already_synced = 0
    /\ result.failed = 0
    /\ \A id \in FetchedIds : id \in DOMAIN synced

\* C3 as stated: whatever the list and the mode, such a run syncs everything.
C3_AllNewSynced == C3_Case => C3_Outcome

\* C3, amended: the same for a real (non-dry) run over pairwise distinct ids.
C3_AllNewSyncedDistinct ==
    (C3_Case /\ ~settings.dry_run /\ Cardinality(FetchedIds) = Len(bookmarks))
        => C3_Outcome

C3_Witness ==
    /\ C3_Case
    /\ ~settings.dry_run
    /\ Len(bookmarks) = 2
    /\ Cardinality(FetchedIds) = 2
    /\ result.newly_synced = 2

\* the step in which a call with this operation and outcome is made
CallMade(op, outcome) ==
    /\ Len(calls') = Len(calls) + 1
    /\ calls'[Len(calls')].op = op
    /\ calls'[Len(calls')].outcome = outcome

\* the calls made for the bookmark at position k of the list, in order
CallsAt(k) == SelectSeq(calls, LAMBDA c : c.idx = k)

\* C4: when create_raindrop raises for a bookmark, the bookmark is counted
\* as failed and not as newly synced, one error is recorded, no record is
\* written (the id stays out of the ledger), the loop moves on to the next
\* bookmark, and no later call (creation of a remaining link, or deletion)
\* is made for that bookmark.
C4_FailureIsolation ==
    [][ /\ CallMade("create", "raised") =>
            /\ result'.failed = result.failed + 1
            /\ result'.newly_synced = result.newly_synced
            /\ result'.deleted_from_x = result.deleted_from_x
            /\ Len(result'.errors) = Len(result.errors) + 1
            /\ synced' = synced
            /\ dirty' = dirty
            /\ Current.tweet_id \notin DOMAIN synced'
            /\ pc' = "loop"
            /\ created_links' = <<>>
            /\ idx' = idx + 1
        /\ \A i \in DOMAIN calls' : \A j \in DOMAIN calls' :
            (i < j /\ calls'[i].op = "create" /\ calls'[i].outcome = "raised")
                => calls'[j].idx > calls'[i].idx
      ]_vars

\* the first of two planned links failed, and the next bookmark was synced
C4_Witness ==
    /\ pc = "done"
    /\ settings.link_mode = "both"
    /\ settings.both_behavior = "two_raindrops"
    /\ settings.remove_from_x
    /\ Len(bookmarks) = 2
    /\ Len(calls) >= 2
    /\ calls[1].op = "create" /\ calls[1].outcome = "raised" /\ calls[1].idx = 0
    /\ calls[1].link = ExternalUrl(1, 1)
    /\ calls[2].idx = 1
    /\ result.failed = 1
    /\ result.newly_synced = 1
    /\ 1 \notin DOMAIN synced

\* C5: when every planned link was created and delete_bookmark raises, the
\* bookmark is counted as newly synced and not as failed, a record with the
\* created links and the deletion flag false is written, one error is
\* recorded and the loop moves on to the next bookmark.
C5_DeletionBestEffort ==
    [][ CallMade("delete", "raised") =>
            /\ Len(created_links) = Len(Requests)
            /\ result'.newly_synced = result.newly_synced + 1
            /\ result'.failed = result.failed
            /\ result'.deleted_from_x = result.deleted_from_x
            /\ Len(result'.errors) = Len(result.errors) + 1
            /\ Current.tweet_id \in DOMAIN synced'
            /\ synced'[Current.tweet_id].raindrop_links = created_links
            /\ synced'[Current.tweet_id].tweet_id = Current.tweet_id
            /\ synced'[Current.tweet_id].deleted_from_x = FALSE
            /\ \A id \in DOMAIN synced : id # Current.tweet_id =>
                    id \in DOMAIN synced' /\ synced'[id] = synced[id]
            /\ pc' = "loop"
            /\ created_links' = <<>>
            /\ idx' = idx + 1
      ]_vars

C5_Witness ==
    /\ pc = "done"
    /\ Len(bookmarks) = 2
    /\ \E j \in DeleteCalls : calls[j].outcome = "raised" /\ calls[j].idx = 0
    /\ result.newly_synced = 2
    /\ result.failed = 0
    /\ Len(result.errors) >= 1
    /\ ~synced[bookmarks[1].tweet_id].deleted_from_x

\* the links planned for the bookmark at position k of the list
PlannedLinks(k) ==
    LET plan == resolve_links(bookmarks[k + 1], settings.link_mode, settings.both_behavior)
    IN  [n \in 1..Len(plan) |-> plan[n][1]]

\* C6: every delete_bookmark call of a run is made with remove_from_x on and
\* dry_run off, and the calls made before it for the same bookmark are
\* exactly the successful creations of its planned links, in order; so it
\* is never made for a skipped, failed or dry-run bookmark.
C6_DeletionGated ==
    \A j \in DeleteCalls :
        /\ settings.remove_from_x
        /\ ~settings.dry_run
        /\ LET k == calls[j].idx
               before == SelectSeq(SubSeq(calls, 1, j - 1), LAMBDA c : c.idx = k)
           IN  /\ calls[j].tweet_id = bookmarks[k + 1].tweet_id
               /\ Len(before) = Len(PlannedLinks(k))
               /\ Len(before) >= 1
               /\ \A n \in DOMAIN before :
                    /\ before[n].op = "create"
                    /\ before[n].outcome = "ok"
                    /\ before[n].link = PlannedLinks(k)[n]
               /\ \A i \in DOMAIN calls : (i > j) => calls[i].idx > k

\* a deletion after both planned links of a bookmark were created
C6_Witness ==
    /\ Len(calls) = 3
    /\ calls[1].op = "create" /\ calls[1].outcome = "ok"
    /\ calls[2].op = "create" /\ calls[2].outcome = "ok"
    /\ calls[3].op = "delete" /\ calls[3].idx = calls[1].idx
    /\ calls[1].link # calls[2].link

\* C7: the deleted_from_x counter counts the delete_bookmark calls that
\* reported success, and a record written after a delete_bookmark call that
\* did not report success has its deletion flag false.
C7_DeletionOutcomeRecorded ==
    /\ result.deleted_from_x =
         Cardinality({j \in DeleteCalls : calls[j].outcome = "true"})
    /\ \A j \in DeleteCalls :
         (calls[j].outcome # "true" /\ calls[j].tweet_id \in DOMAIN synced)
            => ~synced[calls[j].tweet_id].deleted_from_x

\* the steps a dry run takes while it processes the fetched list
DryRunStep == settings.dry_run /\ RunActive

\* what C8 says of every step of a dry run but the count of new bookmarks
C8_Frame ==
    /\ calls' = <<>>
    /\ created' = created
    /\ synced' = synced
    /\ dirty' = dirty
    /\ file' = file
    /\ created_links' = <<>>

C9_SkipLeavesRecord ==
    [][ (pc = "loop" /\ idx < Len(bookmarks) /\ Current.tweet_id \in DOMAIN synced) =>
            /\ result' = [result EXCEPT !.already_synced = @ + 1]
            /\ calls' = calls
            /\ created' = created
            /\ synced' = synced
            /\ dirty' = dirty
            /\ file' = file
            /\ idx' = idx + 1
            /\ pc' = "loop"
      ]_vars

\* a record of the first run was skipped by a second run that deletes
C9_Witness ==
    /\ pc = "done"
    /\ clock = 2
    /\ settings.remove_from_x
    /\ settings.link_mode = "both"
    /\ result.already_synced >= 1
    /\ calls = <<>>
    /\ \E id \in FetchedIds : id \in DOMAIN synced /\ synced[id].synced_at = 1
                               /\ ~synced[id].deleted_from_x

\* C10: a run that fetched its list calls save() exactly once, when the
\* last bookmark has been processed; the state file is written by that call
\* only, never while bookmarks are being processed.
C10_SaveOnceAtEnd ==
    [][ /\ pc' = "done" => save_calls' = 1
        /\ pc' = "loop" => save_calls' = 0
        /\ (file' # file \/ save_calls' > save_calls) =>
              /\ pc = "loop"
              /\ idx = Len(bookmarks)
              /\ pc' = "done"
      ]_vars

\* a run with a failed, and a synced bookmark ended with one save
C10_Witness ==
    /\ pc = "done"
    /\ save_calls = 1
    /\ result.failed = 1
    /\ result.newly_synced = 1
    /\ file.kind = "valid"

(* ---------------------------- properties of the state store ------------- *)
\* what a new store on the same path has after load()
FreshLoad(f) == load("file", f, EmptyLedger)

\* C11: for every content of the state file that is not a ledger written by
\* save(), load() returns without raising and the store is empty afterwards.
C11_LoadFallsBackToEmpty ==
    [][ (StoreLoad /\ store_kind = "file" /\ file.kind \notin {"absent", "valid"}) =>
            /\ last_op' = "load"
            /\ synced' = EmptyLedger
      ]_vars

\* the steps after which C12 lets a record be gone: clear(), and the steps
\* that replace the store object by a new one
ClearOrNewStore == StoreClear \/ StoreNew \/ StoreCrash

\* C12 as stated: no call but clear() takes an id out of the ledger.
C12_RecordsNeverLost ==
    [][ ~ClearOrNewStore => DOMAIN synced \subseteq DOMAIN synced' ]_vars

\* C12, amended: no call takes an id out of the ledger but clear() and a
\* load() of a state file that does not parse (which empties the store).
C12_RecordsNeverLostAmended ==
    [][ (~ClearOrNewStore /\ ~(StoreLoad /\ file.kind \in CaughtKinds))
            => DOMAIN synced \subseteq DOMAIN synced' ]_vars

\* a loaded record went through mark_deleted and save and a second load
C12_Witness ==
    /\ last_op = "load"
    /\ file.kind = "valid"
    /\ ~dirty
    /\ DOMAIN synced = TweetIds
    /\ synced[1].deleted_from_x
    /\ synced[1].synced_at = 0
    /\ synced[2].synced_at = 1

\* the ledger was built by mark_synced and mark_deleted calls (at least
\* one) on a new SyncState, and this step is the end of its save()
SaveOfBuiltLedger ==
    /\ store_kind = "file"
    /\ marks_only
    /\ \/ StoreSaveSkipped /\ last_op \in {"mark_synced", "mark_deleted"}
       \/ StoreSaveDump

C14_SaveAtomic ==
    [][ StoreCrash => file'.kind \notin {"empty", "partial"} ]_vars

(* ---------------------------- properties of the authentication flow ----- *)
\* the cached credential or, without one, the persisted one
Held == IF token = None THEN load_token(token_file) ELSE token

\* the seconds the held credential has left
Remaining == Held[1].expires_at - now

\* no answer of the token endpoint makes a get_token call in the state
\* after this step, by this flow or by a new one, ask for a refresh
NextGetTokenIsLocal ==
    \A resp \in TokenResponses :
        /\ get_token(token', token_file', now', resp, issued' + 1).refresh_calls = 0
        /\ get_token(None, token_file', now', resp, issued' + 1).refresh_calls = 0
        /\ get_token(token', token_file', now', resp, issued' + 1).ret = token'

\* C15: get_token() on a held credential with more than the buffer left
\* returns that credential, makes no refresh call, writes no file and
\* leaves the file and the credential as they are.
C15_FreshTokenNoSideEffect ==
    [][ (GetToken /\ Held # None /\ Remaining > ExpiryBuffer) =>
            /\ last'.ret = Held
            /\ last'.raised = ""
            /\ last'.refresh_calls = 0
            /\ last'.writes = 0
            /\ token' = Held
            /\ token_file' = token_file
            /\ issued' = issued
      ]_vars

\* a persisted credential with one second more than the buffer was returned
C15_Witness ==
    /\ last.op = "get_token"
    /\ last.ret # None
    /\ last.ret = token
    /\ load_token(token_file) = token
    /\ last.refresh_calls = 0
    /\ issued = 0
    /\ token[1].expires_at - now = ExpiryBuffer + 1

\* C16: get_token() on a held credential that is expired and has a refresh
\* token makes exactly one refresh call; when the endpoint issues a new
\* credential, that one is returned, cached and persisted, and while it is
\* not expired the next get_token() makes no refresh call.
C16_RefreshOnceAndPersist ==
    [][ (GetToken /\ Held # None /\ Remaining <= ExpiryBuffer
            /\ Held[1].refresh_token # None) =>
            /\ last'.refresh_calls = 1
            /\ issued' = issued + 1 =>
                /\ last'.ret # None
                /\ last'.ret # Held
                /\ last'.ret[1].access_token = issued'
                /\ last'.raised = ""
                /\ token' = last'.ret
                /\ load_token(token_file') = last'.ret
                /\ (now' < last'.ret[1].expires_at - ExpiryBuffer) => NextGetTokenIsLocal
      ]_vars

\* an expired credential was refreshed by a flow that had loaded it from the
\* file, and the new one is not expired
C16_Witness ==
    /\ last.op = "get_token"
    /\ last.refresh_calls = 1
    /\ last.writes = 1
    /\ last.ret = token
    /\ token # None
    /\ token[1].access_token = 1
    /\ load_token(token_file) = token
    /\ now < token[1].expires_at - ExpiryBuffer

\* C17: get_token() on a held credential that is expired, when no new
\* credential is obtained (no refresh token, or the refresh fails in any
\* way), raises nothing and returns None.
C17_RefreshFailureIsNone ==
    [][ (GetToken /\ Held # None /\ Remaining <= ExpiryBuffer /\ issued' = issued) =>
            /\ last'.raised = ""
            /\ last'.ret = None
      ]_vars

\* C18: a held credential is expired exactly when it has at most the buffer
\* left (expired with 59 seconds or less, not with 61 or more), and
\* get_token() returns an expired one only replaced by a refresh.
C18_ExpiryBuffer ==
    [][ (GetToken /\ Held # None) =>
            /\ is_expired(Held[1], now) <=> (Remaining <= ExpiryBuffer)
            /\ Remaining <= ExpiryBuffer - 1 => is_expired(Held[1], now)
            /\ Remaining >= ExpiryBuffer + 1 => ~is_expired(Held[1], now)
            /\ Remaining <= ExpiryBuffer =>
                /\ last'.ret # Held
                /\ last'.ret # None => last'.refresh_calls = 1
            /\ Remaining > ExpiryBuffer => last'.ret = Held
      ]_vars

\* get_token() gave None for a credential with exactly the buffer left and
\* no refresh token
C18_Witness ==
    /\ last.op = "get_token"
    /\ last.ret = None
    /\ last.refresh_calls = 0
    /\ token # None
    /\ token[1].refresh_token = None
    /\ token[1].expires_at - now = ExpiryBuffer

\* the served callback carried a code, no error, and the generated state
GoodCallback ==
    /\ callback # None
    /\ callback[1].code # None
    /\ callback[1].error = None
    /\ callback[1].state = login_state

\* C19: login makes the token-exchange call exactly when the served
\* callback carried a code, no error and the state generated by this login;
\* otherwise it raises, makes no exchange call, writes no file and leaves
\* the cached credential as it is (a login that timed out changes none of
\* these either).
C19_ExchangeOnlyForGoodCallback ==
    [][ /\ LoginFinish =>
            /\ last'.exchange_calls = 1 <=> GoodCallback
            /\ ~GoodCallback =>
                /\ last'.raised # ""
                /\ last'.writes = 0
                /\ issued' = issued
                /\ token' = token
                /\ token_file' = token_file
        /\ LoginTimeout =>
            /\ issued' = issued
            /\ token' = token
            /\ token_file' = token_file
      ]_vars

\* a login that found a code with another state value raised
C19_Witness ==
    /\ last.op = "login"
    /\ last.raised = "RuntimeError: State mismatch"
    /\ last.exchange_calls = 0
    /\ callback # None
    /\ callback[1].code # None
    /\ callback[1].state # None
    /\ handler.auth_code = callback[1].code
    /\ handler.state = callback[1].state
    /\ token_file = AbsentTokenFile
    /\ pc = "idle"

\* C20: a login whose timeout passes ends with a timeout error, and the
\* listener is stopped then: its socket closed, no thread accepting.
C20_TimeoutStopsListener ==
    [][ LoginTimeout =>
            /\ pc' = "idle"
            /\ last'.raised = "TimeoutError"
            /\ ~socket_open'
            /\ ~thread_alive'
      ]_vars

\* C21: after logout() the cache is empty and the token file absent; a
\* logout() that follows a logout() raises nothing and changes neither, and
\* a get_token() that follows a logout() returns None with no refresh call.
C21_LogoutIdempotent ==
    [][ /\ Logout =>
            /\ token' = None
            /\ token_file'.kind = "absent"
            /\ last'.raised = ""
        /\ (Logout /\ last.op = "logout") =>
            /\ token' = token
            /\ token_file' = token_file
        /\ (GetToken /\ last.op = "logout") =>
            /\ last'.ret = None
            /\ last'.raised = ""
            /\ last'.refresh_calls = 0
            /\ issued' = issued
            /\ token_file' = token_file
      ]_vars

\* a logout removed a credential that the token endpoint had issued
C21_Witness ==
    /\ last.op = "logout"
    /\ issued > 0
    /\ token = None
    /\ token_file = AbsentTokenFile

\* the items of the source in the order the pages give them
AllItems == ItemsUpTo(pages, Len(pages))

\* a step of _make_request that got a 429 response, slept and sent the
\* request again
Slept == pc = "x_request" /\ pc' = "x_request" /\ retries' = retries + 1

\* a step of get_bookmarks that yielded an item
Yielded == pc' = "x_suspended" /\ yielded' # yielded

\* C22: when a 429 response carries a reset timestamp, the sleep before the
\* retry is the time until the reset plus the buffer, capped (whether or
\* not Retry-After is there too); and whatever 429 responses came before a
\* page, the items yielded are the items of the source in order, each once.
C22_RateLimitTransparent ==
    [][ /\ (Slept /\ wait_headers'[1].reset.kind = "int") =>
            \/ wait_headers'[1].reset.value + 5 >= 900 /\ wait_seconds' = Some(900)
            \/ /\ wait_headers'[1].reset.value + 5 < 900
               /\ wait_headers'[1].reset.value >= 0
               /\ wait_seconds' = Some(wait_headers'[1].reset.value + 5)
            \/ /\ wait_headers'[1].reset.value < 0
               /\ wait_seconds' = Some(5)
        /\ Yielded =>
            /\ Len(yielded') <= Len(AllItems)
            /\ yielded' = SubSeq(AllItems, 1, Len(yielded'))
        /\ (Yielded /\ pc = "x_request") =>
            yielded' = Append(yielded, <<Cursor, 1>>)
      ]_vars

\* the first page came after one 429 response that carried a reset
\* timestamp and a Retry-After, and its first item was yielded
C22_Witness ==
    /\ pc = "x_suspended"
    /\ retries = 1
    /\ wait_headers # None
    /\ wait_headers[1].reset.kind = "int"
    /\ wait_headers[1].reset.value < 0
    /\ wait_headers[1].retry_after.kind = "int"
    /\ wait_seconds = Some(5)
    /\ yielded = << <<1, 1>> >>

\* a step in which a request got a 429 response
Got429 == pc = "x_request" /\ retries' = retries + 1

\* C23: a request answered with 429 is sent again, after a sleep, while
\* fewer than 5 retries were made (unless the sleep itself raises), and
\* raises at the 429 that follows the fifth retry; the retries never pass
\* 6, and every request _make_request is called for starts with none.
C23_RetryTerminates ==
    [][ /\ (Got429 /\ retries < 5) =>
            /\ wait_seconds' # None
            /\ pc' = IF wait_seconds'[1] < 0 THEN "x_raised" ELSE "x_request"
        /\ (Got429 /\ retries >= 5) => pc' = "x_raised"
        /\ retries' <= 6
        /\ request_count' = request_count + 1 => retries' = 0
      ]_vars

\* the request for the second page raised after five retries
C23_Witness ==
    /\ pc = "x_raised"
    /\ retries = 6
    /\ xreq = "page"
    /\ pagination_token = Some(2)
    /\ yielded # <<>>

\* C24: get_bookmarks(max_results = n) never has yielded more than n
\* items, for every n >= 0; resumed after the n-th item it ends without a
\* request; and without a maximum it ends only at a page that has no next
\* cursor.
C24_MaxResultsBound ==
    [][ /\ max_results' # None => Len(yielded') <= max_results'[1]
        /\ (pc = "x_suspended" /\ max_results # None
                /\ total_fetched' = max_results[1]) =>
            /\ pc' = "x_ended"
            /\ request_count' = request_count
        /\ (max_results = None /\ pc # "x_ended" /\ pc' = "x_ended") =>
            Cursor = Len(pages)
      ]_vars

\* C25: in permalink mode the requests of a bookmark, with or without
\* external URLs and for either both_behavior, are one request for the
\* permalink with no note.
C25_PermalinkMode ==
    (InCreate /\ settings.link_mode = "permalink") =>
        /\ Len(Requests) = 1
        /\ Requests[1].link = Current.permalink
        /\ Requests[1].note = None
        /\ created_links \in {<<>>, <<Current.permalink>>}

\* a bookmark with external URLs got its permalink created in permalink
\* mode
C25_Witness ==
    /\ InCreate
    /\ settings.link_mode = "permalink"
    /\ Current.external_urls # <<>>
    /\ created_links = <<Current.permalink>>

\* C26: in first_external_url mode a bookmark with external URLs has one
\* request, for the first of them with a note that holds the permalink; a
\* bookmark without has the request of permalink mode; both_behavior makes
\* no difference.
C26_FirstExternalMode ==
    (InCreate /\ settings.link_mode = "first_external_url") =>
        /\ Len(Requests) = 1
        /\ Current.external_urls # <<>> =>
            /\ Requests[1].link = Current.external_urls[1]
            /\ Requests[1].note # None
            /\ Requests[1].note[1][2] = Current.permalink
        /\ Current.external_urls = <<>> =>
            /\ Requests[1].link = Current.permalink
            /\ Requests[1].note = None
        /\ \A bb \in BothBehaviors :
              create_raindrop_requests(Current, [settings EXCEPT !.both_behavior = bb])
                = Requests

\* the first of two external URLs was created in first_external_url mode
C26_Witness ==
    /\ InCreate
    /\ settings.link_mode = "first_external_url"
    /\ Len(Current.external_urls) = 2
    /\ created_links = <<Current.external_urls[1]>>

\* C27: in both mode with two_raindrops a bookmark with external URLs has
\* two requests, the first external URL with a note that holds the
\* permalink and then the permalink with no note, and the run creates them
\* in this order; a bookmark without has one request, the permalink with no
\* note.
C27_BothTwoRaindrops ==
    (InCreate /\ settings.link_mode = "both"
        /\ settings.both_behavior = "two_raindrops") =>
        /\ Current.external_urls # <<>> =>
            /\ Len(Requests) = 2
            /\ Requests[1].link = Current.external_urls[1]
            /\ Requests[1].note # None
            /\ Requests[1].note[1][2] = Current.permalink
            /\ Requests[2].link = Current.permalink
            /\ Requests[2].note = None
            /\ created_links \in {<<>>, <<Current.external_urls[1]>>,
                                  <<Current.external_urls[1], Current.permalink>>}
        /\ Current.external_urls = <<>> =>
            /\ Len(Requests) = 1
            /\ Requests[1].link = Current.permalink
            /\ Requests[1].note = None
            /\ created_links \in {<<>>, <<Current.permalink>>}

\* both links of a bookmark with external URLs were created, the external
\* one first
C27_Witness ==
    /\ InCreate
    /\ settings.link_mode = "both"
    /\ settings.both_behavior = "two_raindrops"
    /\ Len(Current.external_urls) = 2
    /\ created_links = <<Current.external_urls[1], Current.permalink>>

\* C28: the title get_title returns has at most 150 characters, for every
\* length of the text, the username and the display name.
C28_TitleAtMost150 ==
    (pc = "returned" /\ fn = "get_title") => out[1] <= 150

\* the external URLs of the entities: those whose host is not a host of the
\* platform or of its shortener
ExternalEntityUrls == SelectSeq(EntityUrls(arg), LAMBDA u : u.host \notin OwnHosts)

\* C29: the entity URLs whose host is not x.com, twitter.com or t.co are
\* the external links of the item, in order, whenever there is one; no
\* external link has one of these hosts.
C29_ExcludesExactlyOwnHosts ==
    (pc = "returned" /\ fn = "_extract_external_urls") =>
        /\ ExternalEntityUrls # <<>> => out[1] = ExternalEntityUrls
        /\ \A i \in DOMAIN out[1] : out[1][i].host \notin OwnHosts

\* C30: save() opens the state file for writing only if mark_synced, an
\* effective mark_deleted or clear was called on the store since its last
\* save(), and never as the call that directly follows a save().
C30_SaveOnlyAfterMutation ==
    [][ StoreSaveOpen => (mutated /\ last_op # "save") ]_vars

\* save() returned on a store whose state file does not parse: the file was
\* left as it was, since a save() that writes leaves a ledger document
C30_Witness ==
    /\ last_op = "save"
    /\ store_kind = "file"
    /\ ~mutated
    /\ file.kind = "invalid_json"

\* C31: mark_deleted(id) on a record of the ledger sets its deletion flag
\* and keeps its id, links and timestamp; on an id without record it
\* creates none and leaves the dirty flag as it was; no other record changes.
C31_MarkDeletedFlagOnly ==
    [][ \A id \in TweetIds : StoreMarkDeletedOf(id) =>
            /\ DOMAIN synced' = DOMAIN synced
            /\ \A i \in DOMAIN synced \ {id} : synced'[i] = synced[i]
            /\ id \in DOMAIN synced =>
                    /\ synced'[id].deleted_from_x
                    /\ synced'[id].tweet_id = synced[id].tweet_id
                    /\ synced'[id].raindrop_links = synced[id].raindrop_links
                    /\ synced'[id].synced_at = synced[id].synced_at
                    /\ dirty'
            /\ id \notin DOMAIN synced => dirty' = dirty
      ]_vars

\* mark_deleted was the last call on a store that a save() had left clean:
\* the record of id 1, synced at time 0 with its link, now has the flag
C31_Witness ==
    /\ last_op = "mark_deleted"
    /\ store_kind = "file"
    /\ file.kind = "valid"
    /\ 1 \in DOMAIN file.synced
    /\ ~file.synced[1].deleted_from_x
    /\ DOMAIN synced = {1}
    /\ synced[1].deleted_from_x
    /\ synced[1].raindrop_links = <<Permalink(1)>>
    /\ dirty

\* C32: the wait computed for a 429 response is between 0 and 900 seconds,
\* for every reset and Retry-After header: absent, not a number, zero,
\* negative, in the past or far in the future.
C32_WaitWithinBounds ==
    wait_seconds # None => (wait_seconds[1] >= 0 /\ wait_seconds[1] <= 900)

\* a step in which _make_request is called and sends its first request:
\* for the user lookup, a page or a deletion
SentFirst == pc' = "x_request" /\ (pc # "x_request" \/ xreq' # xreq)

\* C33: the request counter of the client counts every HTTP request it
\* sends: it goes up by one with the first request of the user lookup, of
\* a page and of a deletion and with every request sent again after a 429
\* response, and changes in no other step of a client.
C33_CounterCountsRequests ==
    [][ /\ (SentFirst \/ Slept) => request_count' = request_count + 1
        /\ ~(SentFirst \/ Slept \/ XNewClient) => request_count' = request_count
      ]_vars

\* C34: a run over N fetched items gives its progress callback the event
\* (0, N) first and then one event per item in fetch order, with the
\* position of the item and N, whatever the outcome of the item: after the
\* k-th item the events are (0, N), (1, N), ..., (k, N).
C34_ProgressPerItem ==
    pc \in {"loop", "done"} =>
        progress = [k \in 1..(idx + 1) |-> <<k - 1, Len(bookmarks)>>]

\* the three outcome counters of the result
Outcomes(r) == r.already_synced + r.newly_synced + r.failed

\* C35: during a run total_bookmarks is the number of fetched items and
\* the counters already_synced, newly_synced and failed sum to the number
\* of items processed so far, so at the end to total_bookmarks; every item
\* adds one to exactly one of them and none of them ever goes down.
C35_CounterPartition ==
    [][ /\ pc' \in {"loop", "done"} =>
            /\ result'.total_bookmarks = Len(bookmarks')
            /\ Outcomes(result') = idx'
            /\ pc' = "done" => Outcomes(result') = result'.total_bookmarks
        /\ (pc = "loop" /\ pc' = "loop") =>
            /\ result'.already_synced >= result.already_synced
            /\ result'.newly_synced >= result.newly_synced
            /\ result'.failed >= result.failed
      ]_vars

\* a run ended that fetched the same new bookmark twice: the first was
\* synced, the second skipped
C35_Witness ==
    /\ pc = "done"
    /\ Len(bookmarks) = 2
    /\ bookmarks[1].tweet_id = bookmarks[2].tweet_id
    /\ result.total_bookmarks = 2
    /\ result.newly_synced = 1
    /\ result.already_synced = 1
    /\ result.failed = 0
    /\ ~settings.dry_run

\* the calls of delete_bookmark in the log that raised
RaisedDeletes(log) ==
    {i \in DOMAIN log : log[i].op = "delete" /\ log[i].outcome = "raised"}

\* a step of the loop in which delete_bookmark raised
DeleteRaisedStep ==
    /\ Len(calls') = Len(calls) + 1
    /\ Len(calls') \in RaisedDeletes(calls')

C37_CacheMatchesFile ==
    /\ token # None => (token_file.kind = "valid" /\ load_token(token_file) = token)
    /\ last.op = "logout" => (token = None /\ token_file.kind = "absent")

\* a login replaced the credential that the flow had refreshed before:
\* the cache and the file hold the second issued credential
C37_Witness ==
    /\ last.op = "login"
    /\ last.exchange_calls = 1
    /\ last.raised = ""
    /\ issued = 2
    /\ token # None
    /\ token[1].access_token = 2
    /\ load_token(token_file) = token

\* C38: the error, code and state that a login checks when its listener
\* has served a request are those of that request, the one served during
\* this login, whatever the logins before it received: an error alone, or
\* else a code with its state, or else nothing.
C38_OwnCallbackOnly ==
    [][ LoginFinish =>
            /\ callback # None
            /\ handler.error = callback[1].error
            /\ handler.auth_code =
                    IF callback[1].error = None THEN callback[1].code ELSE None
            /\ handler.state =
                    IF callback[1].error = None /\ callback[1].code # None
                    THEN callback[1].state ELSE None
      ]_vars

\* a login had exchanged a code for the first credential; the login
\* after it was served a request without code and raised
C38_Witness ==
    /\ last.op = "login"
    /\ last.raised = "RuntimeError: No authorization code received"
    /\ last.exchange_calls = 0
    /\ callback # None
    /\ callback[1].code = None
    /\ issued = 1
    /\ token # None
    /\ token[1].access_token = 1
    /\ token[1].refresh_token = None

\* what the class attributes hold when only the request of query was
\* stored into them after a reset
StoredFrom(query) ==
    [error |-> query.error,
     auth_code |-> IF query.error = None THEN query.code ELSE None,
     state |-> IF query.error = None /\ query.code # None THEN query.state ELSE None]

\* C39: of two logins that run at the same time, each checks the error,
\* code and state that the request served by its own listener delivered,
\* and exchanges the code of that request only.
C39_ConcurrentLoginsIsolated ==
    \A i \in Logins :
        /\ logins[i].pc \in {"checked", "done"} =>
                logins[i].checked = StoredFrom(logins[i].callback[1])
        /\ logins[i].exchanged # None =>
                logins[i].exchanged = logins[i].callback[1].code

\* C40: create_raindrop and delete_bookmark are called only when the whole
\* list was fetched and counted; a run whose fetch raises ends with no
\* such call and no save(), the state file, the created links and the
\* dirty flag as they were, and no record of the ledger added or dropped
\* but those load() read from the file.
C40_FetchBeforeProcessing ==
    [][ /\ (calls' # calls /\ calls' # <<>>) =>
            /\ pc = "loop"
            /\ bookmarks' = bookmarks
            /\ result.total_bookmarks = Len(bookmarks)
        /\ (pc' = "aborted" /\ pc # "aborted") =>
            /\ calls' = <<>>
            /\ save_calls' = 0
            /\ file' = file
            /\ created' = created
            /\ dirty' = dirty
            /\ DOMAIN synced \subseteq DOMAIN synced'
            /\ DOMAIN synced' \subseteq DOMAIN synced \cup DOMAIN file.synced
            /\ store_kind = "memory" => synced' = synced
      ]_vars

\* the fetch of the second run raised; the first run had synced a
\* bookmark and saved it
C40_Witness ==
    /\ pc = "aborted"
    /\ clock = 2
    /\ store_kind = "file"
    /\ file.kind = "valid"
    /\ synced # EmptyLedger
    /\ created # {}
    /\ calls = <<>>
    /\ save_calls = 0
====
